---- MODULE Spec2Model ----
(***************************************************************************)
(* A model of PerspectiveShifter: the budget-based rate limiter, the       *)
(* wisdom generation engine, the WisdomService facade over the quote       *)
(* cache, the web routes that write the cache and the share statistics,    *)
(* and the request validation of the API and MCP surfaces.                 *)
(*                                                                         *)
(* Text is modelled as sequences of one-character strings, so that         *)
(* trimming, splitting, formatting and parsing are computed.  Money is     *)
(* counted in units of 1e-8 USD, time in seconds since an epoch midnight.  *)
(***************************************************************************)
EXTENDS Integers, Sequences, FiniteSets, TLC

VARIABLES
    now,          \* the wall clock, datetime.utcnow(), in seconds
    rl,           \* the BudgetBasedRateLimiter instance
    quote_cache,  \* table quote_cache: row id -> row
    next_id,      \* the next primary key the store assigns to a quote_cache row
    share_stats,  \* table share_stats: sequence of rows
    daily_stats,  \* table daily_stats: rows [date, total_shifts]
    llm_calls,    \* number of external LLM generation calls made so far
    last          \* the last operation: its name, its arguments, what it returned

vars == <<now, rl, quote_cache, next_id, share_stats, daily_stats, llm_calls, last>>

\* Optional values: None, or Some(v)
None == <<>>
Some(v) == <<v>>

(***************************************************************************)
(* Text helpers.                                                           *)
(***************************************************************************)
Rep(c, n) == [i \in 1..n |-> c]

IsSpace(c) == c = " "

\* str.strip(): drop the leading and the trailing whitespace
Strip(s) ==
    LET keep == {i \in 1..Len(s) : ~IsSpace(s[i])}
    IN  IF keep = {} THEN <<>>
        ELSE LET lo == CHOOSE i \in keep : \A j \in keep : i <= j
                 hi == CHOOSE i \in keep : \A j \in keep : j <= i
             IN  SubSeq(s, lo, hi)

\* len(s.split()): the number of maximal runs of non-whitespace characters
WordCount(s) ==
    Cardinality({i \in 1..Len(s) :
        /\ ~IsSpace(s[i])
        /\ (i = 1 \/ IsSpace(s[i - 1]))})

Upper == <<"A","B","C","D","E","F","G","H","I","J","K","L","M",
           "N","O","P","Q","R","S","T","U","V","W","X","Y","Z">>
LowerOf == <<"a","b","c","d","e","f","g","h","i","j","k","l","m",
             "n","o","p","q","r","s","t","u","v","w","x","y","z">>

LowerChar(c) ==
    IF \E i \in 1..Len(Upper) : Upper[i] = c
    THEN LowerOf[CHOOSE i \in 1..Len(Upper) : Upper[i] = c]
    ELSE c

\* str.lower()
Lower(s) == [i \in 1..Len(s) |-> LowerChar(s[i])]

\* pattern in s
Contains(s, pattern) ==
    \E i \in 0..(Len(s) - Len(pattern)) :
        SubSeq(s, i + 1, i + Len(pattern)) = pattern

Min(a, b) == IF a <= b THEN a ELSE b
Max(a, b) == IF a >= b THEN a ELSE b

(***************************************************************************)
(* The budget-based rate limiter (lib/api/rate_limiter.py).                *)
(***************************************************************************)
SecondsPerMinute == 60
SecondsPerHour == 3600
SecondsPerDay == 86400

\* 0.00045 USD
cost_per_quote == 45000
\* 2.0; int(limit * 2.0) is limit * 2
ai_agent_multiplier == 2
DefaultDailyBudget == 100000000
DefaultMaxQuotesPerIpHour == 50

ai_agent_patterns == {
    <<"c","l","a","u","d","e","d","e","s","k","t","o","p">>,
    <<"m","c","p">>,
    <<"o","p","e","n","a","i">>,
    <<"a","n","t","h","r","o","p","i","c">>,
    <<"g","p","t">>,
    <<"c","h","a","t","g","p","t">>,
    <<"a","s","s","i","s","t","a","n","t">>,
    <<"b","o","t">> }

max_quotes_per_day(self) == self.daily_budget_usd \div cost_per_quote
max_quotes_per_hour(self) == max_quotes_per_day(self) \div 24
max_quotes_per_ip_minute(self) ==
    Max(1, Min(5, self.max_quotes_per_ip_hour \div 60))

StartOfDay(t) == t - (t % SecondsPerDay)
StartOfHour(t) == t - (t % SecondsPerHour)

\* __init__: the configuration read from the environment and the zeroed counters
NewLimiter(budget, ip_hour, t) ==
    [ daily_budget_usd |-> budget,
      max_quotes_per_ip_hour |-> ip_hour,
      global_daily_count |-> 0,
      global_hourly_count |-> 0,
      global_daily_reset |-> StartOfDay(t),
      global_hourly_reset |-> StartOfHour(t),
      ip_requests |-> <<>>,
      daily_cost_usd |-> 0,
      cost_reset |-> StartOfDay(t) ]

\* sha256(ip)[:16]: a digest, taken to be free of collisions
hash_ip(ip) == <<"sha256", ip>>

is_ai_agent(user_agent) ==
    IF user_agent = <<>> THEN FALSE
    ELSE \E p \in ai_agent_patterns : Contains(Lower(user_agent), p)

\* defaultdict(deque): reading a missing key inserts an empty deque
Touch(reqs, h) ==
    IF h \in DOMAIN reqs THEN reqs
    ELSE [k \in DOMAIN reqs \cup {h} |-> IF k = h THEN <<>> ELSE reqs[k]]

RECURSIVE DropOld(_, _)
DropOld(q, cutoff) ==
    IF q # <<>> /\ Head(q) < cutoff THEN DropOld(Tail(q), cutoff) ELSE q

cleanup_old_requests(self, ip_hash, cutoff_time) ==
    LET reqs == Touch(self.ip_requests, ip_hash)
    IN  [self EXCEPT !.ip_requests =
            [reqs EXCEPT ![ip_hash] = DropOld(reqs[ip_hash], cutoff_time)]]

\* the lazy reset as it would be without the test of the hourly counter
reset_global_counters_if_needed_daily(self, t) ==
    IF t >= self.global_daily_reset + SecondsPerDay
    THEN [self EXCEPT !.global_daily_count = 0,
                      !.global_daily_reset = StartOfDay(t),
                      !.daily_cost_usd = 0,
                      !.cost_reset = StartOfDay(t)]
    ELSE self

\* the lazy reset as it would be if a period ended only after its last instant
reset_global_counters_if_needed_strict(self, t) ==
    LET d == IF t > self.global_daily_reset + SecondsPerDay
             THEN [self EXCEPT !.global_daily_count = 0,
                               !.global_daily_reset = StartOfDay(t),
                               !.daily_cost_usd = 0,
                               !.cost_reset = StartOfDay(t)]
             ELSE self
    IN  IF t > d.global_hourly_reset + SecondsPerHour
        THEN [d EXCEPT !.global_hourly_count = 0,
                       !.global_hourly_reset = StartOfHour(t)]
        ELSE d

reset_global_counters_if_needed(self, t) ==
    LET d == IF t >= self.global_daily_reset + SecondsPerDay
             THEN [self EXCEPT !.global_daily_count = 0,
                               !.global_daily_reset = StartOfDay(t),
                               !.daily_cost_usd = 0,
                               !.cost_reset = StartOfDay(t)]
             ELSE self
    IN  IF t >= d.global_hourly_reset + SecondsPerHour
        THEN [d EXCEPT !.global_hourly_count = 0,
                       !.global_hourly_reset = StartOfHour(t)]
        ELSE d

\* the limiter after _get_ip_request_counts
get_ip_request_counts_state(self, ip_hash, t) ==
    cleanup_old_requests(self, ip_hash, t - SecondsPerHour)

\* the pair (hour_count, minute_count) it returns, read off the cleaned state
ip_hour_count(self, ip_hash) == Len(self.ip_requests[ip_hash])
ip_minute_count(self, ip_hash, t) ==
    LET q == self.ip_requests[ip_hash]
    IN  Cardinality({i \in 1..Len(q) : q[i] >= t - SecondsPerMinute})

\* round(x, 6) on an amount in USD: to the nearest 100 units
Round6(x) == ((x + 50) \div 100) * 100

get_cost_info(self) ==
    LET remaining_budget == Max(0, self.daily_budget_usd - self.daily_cost_usd)
    IN  [ daily_spent_usd |-> Round6(self.daily_cost_usd),
          daily_remaining_usd |-> Round6(remaining_budget),
          estimated_requests_remaining |-> remaining_budget \div cost_per_quote ]

\* check_quota as it would be if a check also counted as a request
check_quota_state_counting(self, client_ip, t) ==
    LET s == get_ip_request_counts_state(
                 reset_global_counters_if_needed(self, t), hash_ip(client_ip), t)
    IN  [s EXCEPT !.global_daily_count = @ + 1,
                  !.global_hourly_count = @ + 1,
                  !.ip_requests[hash_ip(client_ip)] = Append(@, t)]

\* the limiter as check_quota leaves it
check_quota_state(self, client_ip, t) ==
    get_ip_request_counts_state(
        reset_global_counters_if_needed(self, t), hash_ip(client_ip), t)

effective_ip_hour_limit(self, user_agent) ==
    IF is_ai_agent(user_agent)
    THEN self.max_quotes_per_ip_hour * ai_agent_multiplier
    ELSE self.max_quotes_per_ip_hour

\* the burst limit as it would be without the multiplier for AI agents
effective_ip_minute_limit_flat(self, user_agent) ==
    max_quotes_per_ip_minute(self)

effective_ip_minute_limit(self, user_agent) ==
    IF is_ai_agent(user_agent)
    THEN max_quotes_per_ip_minute(self) * ai_agent_multiplier
    ELSE max_quotes_per_ip_minute(self)

Denied(reason, today, hour, retry, reset, cost) ==
    [ allowed |-> FALSE, reason |-> reason, remaining_today |-> today,
      remaining_this_hour |-> hour, retry_after |-> retry,
      quota_reset |-> reset, cost_info |-> cost ]

\* check_quota as it would be with the burst protection tested first
check_quota_decision_minute_first(s, client_ip, user_agent, t) ==
    IF ip_minute_count(s, hash_ip(client_ip), t)
           >= effective_ip_minute_limit(s, user_agent)
    THEN Denied("IP_MINUTE_LIMIT_EXCEEDED", 0, 0, Some(60), None, get_cost_info(s))
    ELSE IF s.daily_cost_usd >= s.daily_budget_usd
    THEN Denied("DAILY_BUDGET_EXCEEDED", 0, 0, None, None, get_cost_info(s))
    ELSE [ allowed |-> TRUE, reason |-> "QUOTA_AVAILABLE", remaining_today |-> 0,
           remaining_this_hour |-> 0, retry_after |-> None, quota_reset |-> None,
           cost_info |-> get_cost_info(s) ]

\* int((next_reset - now).total_seconds()) for a clock that reads t seconds
\* and micro microseconds: next_reset is a whole second, and int() cuts the
\* fraction of the difference off
seconds_until(next_reset, t, micro) ==
    IF micro = 0 THEN next_reset - t ELSE next_reset - t - 1

\* the decision check_quota returns when the clock reads t seconds and micro
\* microseconds; s is the limiter after the lazy reset and the cleanup of
\* the caller's queue
check_quota_decision_at(s, client_ip, user_agent, t, micro) ==
    LET h == hash_ip(client_ip)
        left_today == Max(0, max_quotes_per_day(s) - s.global_daily_count)
        left_hour == Max(0, max_quotes_per_hour(s) - s.global_hourly_count)
        next_day == s.global_daily_reset + SecondsPerDay
        next_hour == s.global_hourly_reset + SecondsPerHour
    IN  IF s.daily_cost_usd >= s.daily_budget_usd
        THEN Denied("DAILY_BUDGET_EXCEEDED", 0, 0,
                    Some(seconds_until(next_day, t, micro)), Some(next_day),
                    [ daily_spent_usd |-> s.daily_cost_usd,
                      daily_remaining_usd |-> 0,
                      estimated_requests_remaining |-> 0 ])
        ELSE IF s.global_daily_count >= max_quotes_per_day(s)
        THEN Denied("DAILY_QUOTA_EXCEEDED", 0, left_hour,
                    Some(seconds_until(next_day, t, micro)), Some(next_day),
                    get_cost_info(s))
        ELSE IF s.global_hourly_count >= max_quotes_per_hour(s)
        THEN Denied("HOURLY_QUOTA_EXCEEDED", left_today, 0,
                    Some(seconds_until(next_hour, t, micro)), Some(next_hour),
                    get_cost_info(s))
        ELSE IF ip_hour_count(s, h) >= effective_ip_hour_limit(s, user_agent)
        THEN Denied("IP_HOURLY_LIMIT_EXCEEDED", left_today, left_hour, Some(3600),
                    None, get_cost_info(s))
        ELSE IF ip_minute_count(s, h, t) >= effective_ip_minute_limit(s, user_agent)
        THEN Denied("IP_MINUTE_LIMIT_EXCEEDED", left_today, left_hour, Some(60),
                    None, get_cost_info(s))
        ELSE [ allowed |-> TRUE, reason |-> "QUOTA_AVAILABLE",
               remaining_today |->
                   Max(0, max_quotes_per_day(s) - s.global_daily_count - 1),
               remaining_this_hour |->
                   Max(0, max_quotes_per_hour(s) - s.global_hourly_count - 1),
               retry_after |-> None, quota_reset |-> None,
               cost_info |-> get_cost_info(s) ]

\* the decision check_quota returns on a whole second
check_quota_decision(s, client_ip, user_agent, t) ==
    check_quota_decision_at(s, client_ip, user_agent, t, 0)

\* the limiter as record_request leaves it
record_request_state(self, client_ip, cost_usd, t) ==
    LET h == hash_ip(client_ip)
        reqs == Touch(self.ip_requests, h)
        actual_cost == IF cost_usd # None THEN cost_usd[1] ELSE cost_per_quote
    IN  [self EXCEPT !.global_daily_count = @ + 1,
                     !.global_hourly_count = @ + 1,
                     !.daily_cost_usd = @ + actual_cost,
                     !.ip_requests = [reqs EXCEPT ![h] = Append(@, t)]]

get_quota_status(s) ==
    [ global_daily_count |-> s.global_daily_count,
      global_hourly_count |-> s.global_hourly_count,
      max_quotes_per_day |-> max_quotes_per_day(s),
      max_quotes_per_hour |-> max_quotes_per_hour(s),
      daily_reset_time |-> s.global_daily_reset,
      hourly_reset_time |-> s.global_hourly_reset,
      cost_info |-> get_cost_info(s),
      active_ips |-> Cardinality(DOMAIN s.ip_requests) ]

\* reset_quotas as it would be if every scope also cleared the per-IP queues
reset_quotas_state_clearing(self, reset_type, t) ==
    [ daily_budget_usd |-> self.daily_budget_usd,
      max_quotes_per_ip_hour |-> self.max_quotes_per_ip_hour,
      global_daily_count |->
          IF reset_type \in {"all", "daily"} THEN 0 ELSE self.global_daily_count,
      global_hourly_count |->
          IF reset_type \in {"all", "hourly"} THEN 0 ELSE self.global_hourly_count,
      global_daily_reset |->
          IF reset_type \in {"all", "daily"} THEN StartOfDay(t)
          ELSE self.global_daily_reset,
      global_hourly_reset |->
          IF reset_type \in {"all", "hourly"} THEN StartOfHour(t)
          ELSE self.global_hourly_reset,
      ip_requests |-> <<>>,
      daily_cost_usd |->
          IF reset_type \in {"all", "costs"} THEN 0 ELSE self.daily_cost_usd,
      cost_reset |->
          IF reset_type \in {"all", "costs"} THEN StartOfDay(t) ELSE self.cost_reset ]

\* the limiter as reset_quotas leaves it
reset_quotas_state(self, reset_type, t) ==
    LET a == IF reset_type \in {"all", "daily"}
             THEN [self EXCEPT !.global_daily_count = 0,
                               !.global_daily_reset = StartOfDay(t)]
             ELSE self
        b == IF reset_type \in {"all", "hourly"}
             THEN [a EXCEPT !.global_hourly_count = 0,
                            !.global_hourly_reset = StartOfHour(t)]
             ELSE a
        c == IF reset_type \in {"all", "costs"}
             THEN [b EXCEPT !.daily_cost_usd = 0, !.cost_reset = StartOfDay(t)]
             ELSE b
    IN  IF reset_type = "all" THEN [c EXCEPT !.ip_requests = <<>>] ELSE c

(***************************************************************************)
(* The limiter driven directly, as its unit tests drive it.                *)
(***************************************************************************)
\* the instants at which calls are made
Instants == {30, 60, 90, 3600, 3630, 86400}
StartInstants == {30}

\* (API_DAILY_BUDGET_USD, API_MAX_QUOTES_PER_IP_HOUR) pairs: a budget of 2
\* quotes a day (no hourly allowance), and one of 24 a day (1 an hour)
LimiterConfigs == {<<100000, 2>>, <<1100000, 2>>}

ClientIps == {"192.168.1.100", "192.168.1.101"}

UA_Browser == <<"t","e","s","t","-","b","r","o","w","s","e","r">>
UA_Claude == <<"C","l","a","u","d","e","D","e","s","k","t","o","p","/","M","C","P">>
UserAgents == {<<>>, UA_Browser, UA_Claude}

\* the number of timestamps the model lets the per-IP queues hold in total
MaxTracked == 2

RECURSIVE SumLen(_, _)
SumLen(reqs, keys) ==
    IF keys = {} THEN 0
    ELSE LET k == CHOOSE x \in keys : TRUE
         IN  Len(reqs[k]) + SumLen(reqs, keys \ {k})

Tracked(self) == SumLen(self.ip_requests, DOMAIN self.ip_requests)

DbInit ==
    /\ quote_cache = <<>>
    /\ next_id = 1
    /\ share_stats = <<>>
    /\ daily_stats = <<>>
    /\ llm_calls = 0

DbUnchanged ==
    UNCHANGED <<quote_cache, next_id, share_stats, daily_stats, llm_calls>>

LimInit ==
    /\ now \in StartInstants
    /\ \E c \in LimiterConfigs : rl = NewLimiter(c[1], c[2], now)
    /\ DbInit
    /\ last = [op |-> "init"]

Tick ==
    /\ \E t \in Instants : t > now /\ now' = t
    /\ last' = [op |-> "tick"]
    /\ UNCHANGED rl
    /\ DbUnchanged

CheckQuota(client_ip, user_agent) ==
    /\ rl' = check_quota_state(rl, client_ip, now)
    /\ last' = [ op |-> "check_quota", ip |-> client_ip, ua |-> user_agent,
                 changed |-> rl' # rl,
                 result |-> check_quota_decision(rl', client_ip, user_agent, now) ]
    /\ UNCHANGED now
    /\ DbUnchanged

RecordRequest(client_ip, user_agent, cost_usd) ==
    /\ Tracked(rl) < MaxTracked
    /\ rl' = record_request_state(rl, client_ip, cost_usd, now)
    /\ last' = [op |-> "record_request", ip |-> client_ip, cost |-> cost_usd]
    /\ UNCHANGED now
    /\ DbUnchanged

GetQuotaStatus ==
    /\ rl' = reset_global_counters_if_needed(rl, now)
    /\ last' = [ op |-> "get_quota_status", changed |-> rl' # rl,
                 result |-> get_quota_status(rl') ]
    /\ UNCHANGED now
    /\ DbUnchanged

ResetQuotas(reset_type) ==
    /\ rl' = reset_quotas_state(rl, reset_type, now)
    /\ last' = [op |-> "reset_quotas", scope |-> reset_type, changed |-> rl' # rl]
    /\ UNCHANGED now
    /\ DbUnchanged

ResetScopes == {"all", "daily", "hourly", "costs", "weekly"}

LimNext ==
    \/ Tick
    \/ \E ip \in ClientIps, ua \in UserAgents : CheckQuota(ip, ua)
    \/ \E ip \in ClientIps, c \in {None, Some(rl.daily_budget_usd)} :
           RecordRequest(ip, <<>>, c)
    \/ GetQuotaStatus

SpecLimiter == LimInit /\ [][LimNext]_vars

(***************************************************************************)
(* Claims about the rate limiter.                                          *)
(***************************************************************************)
Checked == last.op = "check_quota"

\* the denial rules, read off the limiter's state for the caller of the last check
BudgetOut == rl.daily_cost_usd >= rl.daily_budget_usd
DailyOut == rl.global_daily_count >= rl.daily_budget_usd \div cost_per_quote
HourlyOut ==
    rl.global_hourly_count >= (rl.daily_budget_usd \div cost_per_quote) \div 24
AgentFactor(ua) == IF is_ai_agent(ua) THEN 2 ELSE 1
CallerQueue == rl.ip_requests[hash_ip(last.ip)]
IpHourOut ==
    Len(CallerQueue) >= rl.max_quotes_per_ip_hour * AgentFactor(last.ua)
IpMinuteOut ==
    Cardinality({i \in 1..Len(CallerQueue) : CallerQueue[i] >= now - 60})
        >= max_quotes_per_ip_minute(rl) * AgentFactor(last.ua)

\* C2: check_quota returns the first denial rule that matches, in the order
\* DAILY_BUDGET_EXCEEDED, DAILY_QUOTA_EXCEEDED, HOURLY_QUOTA_EXCEEDED,
\* IP_HOURLY_LIMIT_EXCEEDED, IP_MINUTE_LIMIT_EXCEEDED, else QUOTA_AVAILABLE; with
\* the budget and the caller's minute limit both exhausted the reason is
\* DAILY_BUDGET_EXCEEDED.
C2_PriorityOrder ==
    Checked =>
        LET r == last.result.reason
        IN  /\ r = (IF BudgetOut THEN "DAILY_BUDGET_EXCEEDED"
                    ELSE IF DailyOut THEN "DAILY_QUOTA_EXCEEDED"
                    ELSE IF HourlyOut THEN "HOURLY_QUOTA_EXCEEDED"
                    ELSE IF IpHourOut THEN "IP_HOURLY_LIMIT_EXCEEDED"
                    ELSE IF IpMinuteOut THEN "IP_MINUTE_LIMIT_EXCEEDED"
                    ELSE "QUOTA_AVAILABLE")
            /\ last.result.allowed <=> r = "QUOTA_AVAILABLE"
            /\ (BudgetOut /\ IpMinuteOut) => r # "IP_MINUTE_LIMIT_EXCEEDED"

C2_Witness ==
    /\ Checked
    /\ BudgetOut
    /\ IpMinuteOut
    /\ last.result.reason = "DAILY_BUDGET_EXCEEDED"

\* C3 as stated: a check_quota call leaves the whole limiter unchanged.
C3_CheckQuotaMutatesNothing ==
    [][last'.op = "check_quota" => rl' = rl]_vars

Fresh(q, t) == SelectSeq(q, LAMBDA x : x >= t - SecondsPerHour)

\* C3 amended: check_quota never counts a request.  It changes the limiter
\* only by the lazy reset (a period's counters are zeroed and its anchor moved
\* exactly when the period has elapsed), by dropping the timestamps older than
\* one hour from the caller's queue, and by tracking the caller's IP hash; the
\* configuration and the other IPs' queues are unchanged.
C3_CheckQuotaNeverCounts ==
    [][last'.op = "check_quota" =>
        LET h == hash_ip(last'.ip)
            dayDue == now >= rl.global_daily_reset + SecondsPerDay
            hourDue == now >= rl.global_hourly_reset + SecondsPerHour
            old == IF h \in DOMAIN rl.ip_requests THEN rl.ip_requests[h] ELSE <<>>
        IN  /\ rl'.global_daily_count = IF dayDue THEN 0 ELSE rl.global_daily_count
            /\ rl'.daily_cost_usd = IF dayDue THEN 0 ELSE rl.daily_cost_usd
            /\ rl'.global_hourly_count =
                   IF hourDue THEN 0 ELSE rl.global_hourly_count
            /\ ~dayDue => /\ rl'.global_daily_reset = rl.global_daily_reset
                          /\ rl'.cost_reset = rl.cost_reset
            /\ ~hourDue => rl'.global_hourly_reset = rl.global_hourly_reset
            /\ rl'.daily_budget_usd = rl.daily_budget_usd
            /\ rl'.max_quotes_per_ip_hour = rl.max_quotes_per_ip_hour
            /\ DOMAIN rl'.ip_requests = DOMAIN rl.ip_requests \cup {h}
            /\ \A k \in DOMAIN rl.ip_requests \ {h} :
                   rl'.ip_requests[k] = rl.ip_requests[k]
            /\ rl'.ip_requests[h] = Fresh(old, now)
    ]_vars

\* a check that performed the daily reset on a limiter that had counted requests
C3_Witness ==
    /\ Checked
    /\ last.changed
    /\ now >= SecondsPerDay
    /\ rl.global_daily_reset = SecondsPerDay
    /\ rl.global_daily_count = 0
    /\ Tracked(rl) > 0

(***************************************************************************)
(* The limiter with the default budget, so that the per-IP limits are the  *)
(* ones that decide, and with the resets of reset_quotas.                  *)
(***************************************************************************)
\* the instants of this scenario: a minute, an hour and a day after the first
QuotaInstants == {30, 90, 3600, 86400}

QuotaInit ==
    /\ now \in StartInstants
    /\ rl = NewLimiter(DefaultDailyBudget, 2, now)
    /\ DbInit
    /\ last = [op |-> "init"]

Advance ==
    /\ \E t \in QuotaInstants : t > now /\ now' = t
    /\ last' = [op |-> "tick"]
    /\ UNCHANGED rl
    /\ DbUnchanged

QuotaNext ==
    \/ Advance
    \/ \E ip \in ClientIps, ua \in {UA_Browser, UA_Claude} : CheckQuota(ip, ua)
    \/ \E ip \in ClientIps : RecordRequest(ip, <<>>, None)
    \/ GetQuotaStatus

SpecQuota == QuotaInit /\ [][QuotaNext]_vars

ResetNext ==
    \/ Advance
    \/ \E ip \in ClientIps, c \in {None, Some(DefaultDailyBudget)} :
           RecordRequest(ip, <<>>, c)
    \/ \E scope \in ResetScopes : ResetQuotas(scope)

SpecReset == QuotaInit /\ [][ResetNext]_vars

NoGlobalLimit == ~BudgetOut /\ ~DailyOut /\ ~HourlyOut

MinuteDenied ==
    /\ ~last.result.allowed
    /\ last.result.reason = "IP_MINUTE_LIMIT_EXCEEDED"
    /\ last.result.retry_after = Some(60)

\* C12 as stated: when no global limit applies, check_quota denies with
\* IP_MINUTE_LIMIT_EXCEEDED (retry_after 60) exactly when the caller's own
\* requests of the last minute number at least N, or 2N for an AI agent.
C12_MinuteLimitWheneverReached ==
    (Checked /\ NoGlobalLimit) => (MinuteDenied <=> IpMinuteOut)

\* C12 amended: when no global limit applies and the caller's hourly limit is
\* not reached, check_quota denies with IP_MINUTE_LIMIT_EXCEEDED (retry_after
\* 60) exactly when the requests recorded for the caller's own IP in the last
\* minute number at least N (2N for an AI agent), N = max_quotes_per_ip_minute,
\* and allows the request otherwise; with the hourly limit reached the denial
\* is IP_HOURLY_LIMIT_EXCEEDED instead.  Other IPs' requests never count.
C12_MinuteLimitBelowHourLimit ==
    (Checked /\ NoGlobalLimit) =>
        /\ ~IpHourOut => /\ MinuteDenied <=> IpMinuteOut
                         /\ last.result.allowed <=> ~IpMinuteOut
        /\ IpHourOut => last.result.reason = "IP_HOURLY_LIMIT_EXCEEDED"
        /\ MinuteDenied => IpMinuteOut

OtherQueuesBusy ==
    \E h \in DOMAIN rl.ip_requests \ {hash_ip(last.ip)} :
        ip_minute_count(rl, h, now) >= max_quotes_per_ip_minute(rl)

\* an AI agent with one request in the last minute is still allowed while
\* another IP has reached its own limit
C12_Witness ==
    /\ Checked
    /\ NoGlobalLimit
    /\ is_ai_agent(last.ua)
    /\ ip_minute_count(rl, hash_ip(last.ip), now) = 1
    /\ last.result.allowed
    /\ OtherQueuesBusy

\* C17: at the start of check_quota and of get_quota_status, if now is at or
\* past the daily anchor plus 24 hours the daily count and the daily cost become
\* 0 and the daily anchor the start of the current day; if now is at or past
\* the hourly anchor plus 1 hour the hourly count becomes 0 and the hourly
\* anchor the start of the current hour; otherwise counters and anchors are
\* unchanged.  Afterwards anchor <= now < anchor + period for both periods.
C17_LazyReset ==
    [][last'.op \in {"check_quota", "get_quota_status"} =>
        LET dayDue == now >= rl.global_daily_reset + SecondsPerDay
            hourDue == now >= rl.global_hourly_reset + SecondsPerHour
        IN  /\ IF dayDue
               THEN /\ rl'.global_daily_count = 0
                    /\ rl'.daily_cost_usd = 0
                    /\ rl'.global_daily_reset = StartOfDay(now)
               ELSE /\ rl'.global_daily_count = rl.global_daily_count
                    /\ rl'.daily_cost_usd = rl.daily_cost_usd
                    /\ rl'.global_daily_reset = rl.global_daily_reset
            /\ IF hourDue
               THEN /\ rl'.global_hourly_count = 0
                    /\ rl'.global_hourly_reset = StartOfHour(now)
               ELSE /\ rl'.global_hourly_count = rl.global_hourly_count
                    /\ rl'.global_hourly_reset = rl.global_hourly_reset
            /\ rl'.global_daily_reset <= now
            /\ now < rl'.global_daily_reset + SecondsPerDay
            /\ rl'.global_hourly_reset <= now
            /\ now < rl'.global_hourly_reset + SecondsPerHour
    ]_vars

\* a status query made exactly 24 hours after the anchor reset both periods
\* of a limiter that had recorded requests
C17_Witness ==
    /\ last.op = "get_quota_status"
    /\ last.changed
    /\ now = SecondsPerDay
    /\ rl.global_daily_reset = SecondsPerDay
    /\ rl.global_hourly_reset = SecondsPerDay
    /\ rl.global_daily_count = 0
    /\ rl.daily_cost_usd = 0
    /\ Tracked(rl) > 0

\* C18: reset_quotas changes only what its scope names: "daily" the daily
\* count and its anchor, "hourly" the hourly count and its anchor, "costs" the
\* accumulated daily cost (with the cost's own anchor, which nothing reads),
\* "all" these three and every per-IP queue; any other scope changes nothing.
C18_ResetQuotasFrame ==
    [][last'.op = "reset_quotas" =>
        LET scope == last'.scope
            daily == scope \in {"all", "daily"}
            hourly == scope \in {"all", "hourly"}
            costs == scope \in {"all", "costs"}
        IN  /\ rl'.global_daily_count = IF daily THEN 0 ELSE rl.global_daily_count
            /\ rl'.global_daily_reset =
                   IF daily THEN StartOfDay(now) ELSE rl.global_daily_reset
            /\ rl'.global_hourly_count =
                   IF hourly THEN 0 ELSE rl.global_hourly_count
            /\ rl'.global_hourly_reset =
                   IF hourly THEN StartOfHour(now) ELSE rl.global_hourly_reset
            /\ rl'.daily_cost_usd = IF costs THEN 0 ELSE rl.daily_cost_usd
            /\ rl'.cost_reset = IF costs THEN StartOfDay(now) ELSE rl.cost_reset
            /\ rl'.ip_requests = IF scope = "all" THEN <<>> ELSE rl.ip_requests
            /\ rl'.daily_budget_usd = rl.daily_budget_usd
            /\ rl'.max_quotes_per_ip_hour = rl.max_quotes_per_ip_hour
            /\ scope \notin {"all", "daily", "hourly", "costs"} => rl' = rl
    ]_vars

\* a "costs" reset that zeroed a spent budget and left the counts and the
\* queues of the recorded requests in place
C18_Witness ==
    /\ last.op = "reset_quotas"
    /\ last.scope = "costs"
    /\ last.changed
    /\ rl.daily_cost_usd = 0
    /\ rl.global_daily_count > 0
    /\ rl.global_hourly_count > 0
    /\ Tracked(rl) > 0

\* a reset boundary has passed that no check has acted on yet
BoundaryPassed(self, t) ==
    \/ t >= self.global_daily_reset + SecondsPerDay
    \/ t >= self.global_hourly_reset + SecondsPerHour

\* C25: a request recorded after a daily or hourly boundary has passed is
\* counted in the new period: the check_quota or get_quota_status that
\* follows it leaves it in the global daily count, the global hourly count
\* and the accumulated daily cost
C25_RecordedAfterBoundaryCounts ==
    [][ ( /\ last.op = "record_request"
          /\ BoundaryPassed(rl, now)
          /\ last'.op \in {"check_quota", "get_quota_status"} ) =>
            /\ rl'.global_daily_count >= 1
            /\ rl'.global_hourly_count >= 1
            /\ rl'.daily_cost_usd >= cost_per_quote ]_vars

\* get_quota_status has just reset the hourly count to 0 although a queue
\* holds a request stamped in the hour that has begun
C25_Witness ==
    /\ last.op = "get_quota_status"
    /\ last.changed
    /\ last.result.global_hourly_count = 0
    /\ \E h \in DOMAIN rl.ip_requests :
           \E i \in 1..Len(rl.ip_requests[h]) :
               rl.ip_requests[h][i] >= rl.global_hourly_reset

(***************************************************************************)
(* The counters specification: checks, records and status reads around the *)
(* end of the last hour of a day and the day after.                        *)
(***************************************************************************)
DayInstants ==
    { 30, 23 * SecondsPerHour, SecondsPerDay - 1, SecondsPerDay,
      SecondsPerDay + SecondsPerHour, 2 * SecondsPerDay }

AdvanceDay ==
    /\ \E t \in DayInstants : t > now /\ now' = t
    /\ last' = [op |-> "tick"]
    /\ UNCHANGED rl
    /\ DbUnchanged

CountersNext ==
    \/ AdvanceDay
    \/ \E ip \in ClientIps : CheckQuota(ip, UA_Browser)
    \/ \E ip \in ClientIps : RecordRequest(ip, <<>>, None)
    \/ GetQuotaStatus

SpecCounters == QuotaInit /\ [][CountersNext]_vars

ClockFractions == {0, 500000}

\* (API_DAILY_BUDGET_USD, API_MAX_QUOTES_PER_IP_HOUR): 48 quotes a day and 2
\* an hour, and the default budget with 2 quotes an hour for each IP
RetryConfigs == {<<48 * cost_per_quote, 50>>, <<DefaultDailyBudget, 2>>}

RetryHorizon == SecondsPerDay

Idle(op, micro) ==
    [op |-> op, micro |-> micro, pending |-> None, retried |-> None, result |-> None]

RetryInit ==
    /\ now \in StartInstants
    /\ \E c \in RetryConfigs : rl = NewLimiter(c[1], c[2], now)
    /\ DbInit
    /\ \E m \in ClockFractions : last = Idle("init", m)

RetryTick ==
    /\ \E t \in {90, SecondsPerHour} : t > now /\ now' = t
    /\ last' = Idle("tick", last.micro)
    /\ UNCHANGED rl
    /\ DbUnchanged

RetryRecord(client_ip, cost_usd) ==
    /\ Tracked(rl) < MaxTracked
    /\ rl.global_daily_count < MaxTracked
    /\ rl' = record_request_state(rl, client_ip, cost_usd, now)
    /\ last' = Idle("record_request", last.micro)
    /\ UNCHANGED now
    /\ DbUnchanged

\* check_quota; a check that directly follows the wait of the same client is
\* that client's retry
RetryCheck(client_ip, user_agent) ==
    /\ rl' = check_quota_state(rl, client_ip, now)
    /\ \E d \in {check_quota_decision_at(rl', client_ip, user_agent, now, last.micro)} :
           last' = [ op |-> "check_quota", micro |-> last.micro,
                     retried |-> IF /\ last.op = "wait"
                                    /\ last.pending[1].ip = client_ip
                                    /\ last.pending[1].ua = user_agent
                                 THEN Some(last.pending[1].reason) ELSE None,
                     result |-> Some(d),
                     pending |-> IF d.allowed THEN None
                                 ELSE Some([ ip |-> client_ip, ua |-> user_agent,
                                             reason |-> d.reason,
                                             due |-> now + d.retry_after[1] ]) ]
    /\ UNCHANGED now
    /\ DbUnchanged

\* the denied client lets retry_after seconds pass; nothing is recorded
Wait ==
    /\ last.op = "check_quota"
    /\ last.pending # None
    /\ last.pending[1].due <= RetryHorizon
    /\ now' = last.pending[1].due
    /\ last' = [last EXCEPT !.op = "wait"]
    /\ UNCHANGED rl
    /\ DbUnchanged

RetryNext ==
    \/ RetryTick
    \/ \E ip \in ClientIps, c \in {None, Some(rl.daily_budget_usd)} : RetryRecord(ip, c)
    \/ \E ip \in ClientIps, ua \in {UA_Browser, UA_Claude} : RetryCheck(ip, ua)
    \/ Wait

SpecRetry == RetryInit /\ [][RetryNext]_vars

Retried(reason) ==
    /\ last.op = "check_quota"
    /\ last.retried = Some(reason)

DeniedFor(reason) ==
    /\ ~last.result[1].allowed
    /\ last.result[1].reason = reason

DenialReasons ==
    { "DAILY_BUDGET_EXCEEDED", "DAILY_QUOTA_EXCEEDED", "HOURLY_QUOTA_EXCEEDED",
      "IP_HOURLY_LIMIT_EXCEEDED", "IP_MINUTE_LIMIT_EXCEEDED" }

\* C24: a client denied at time t with reason X and retry_after r, with no
\* request recorded in between, is not denied with the same reason X by the
\* check_quota it makes at time t + r
C24_RetryAfterSuffices ==
    \A x \in DenialReasons : Retried(x) => ~DeniedFor(x)

\* under the default budget a client denied for the spent budget half a
\* second into a second came back after retry_after seconds, half a second
\* before midnight, and was denied for the spent budget again
C24_Witness ==
    /\ Retried("DAILY_BUDGET_EXCEEDED")
    /\ DeniedFor("DAILY_BUDGET_EXCEEDED")
    /\ last.micro = 500000
    /\ rl.daily_budget_usd = DefaultDailyBudget
    /\ now = SecondsPerDay - 1
    /\ last.result[1].retry_after = Some(0)

(***************************************************************************)
(* The wisdom generation engine (openai_service.py).                       *)
(*                                                                         *)
(* A JSON value is [t |-> "str", s |-> text], [t |-> "null"],              *)
(* [t |-> "list", items |-> sequence] or [t |-> "obj", fields |-> f], f a  *)
(* function from keys to values.                                           *)
(* The outcome of the external call is [kind |-> "raise"] (network error,  *)
(* timeout, authentication), or [kind |-> "ok", content |-> c] where c is  *)
(* [kind |-> "empty"] (no body), [kind |-> "invalid"] (not JSON) or        *)
(* [kind |-> "json", data |-> value].                                      *)
(***************************************************************************)
JStr(s) == [t |-> "str", s |-> s]
JNull == [t |-> "null"]
JList(items) == [t |-> "list", items |-> items]
JObj(fields) == [t |-> "obj", fields |-> fields]

RequiredKeys == {"quote", "attribution", "perspective", "context"}

FallbackQuote1 ==
    <<"T","h","e"," ","o","n","l","y"," ","w","a","y"," ","t","o"," ","m","a",
      "k","e"," ","s","e","n","s","e"," ","o","u","t"," ","o","f"," ","c","h",
      "a","n","g","e"," ","i","s"," ","t","o"," ","p","l","u","n","g","e"," ",
      "i","n","t","o"," ","i","t",","," ","m","o","v","e"," ","w","i","t","h",
      " ","i","t",","," ","a","n","d"," ","j","o","i","n"," ","t","h","e"," ",
      "d","a","n","c","e",".">>

FallbackAttribution1 ==
    <<"A","l","a","n"," ","W","a","t","t","s">>

FallbackPerspective1 ==
    <<"T","h","i","s"," ","w","i","s","d","o","m"," ","r","e","m","i","n","d",
      "s"," ","u","s"," ","t","h","a","t"," ","r","e","s","i","s","t","a","n",
      "c","e"," ","t","o"," ","o","u","r"," ","c","u","r","r","e","n","t"," ",
      "e","x","p","e","r","i","e","n","c","e"," ","o","f","t","e","n"," ","c",
      "r","e","a","t","e","s"," ","m","o","r","e"," ","s","u","f","f","e","r",
      "i","n","g"," ","t","h","a","n"," ","t","h","e"," ","e","x","p","e","r",
      "i","e","n","c","e"," ","i","t","s","e","l","f",".">>

FallbackContext1 ==
    <<"W","a","t","t","s",","," ","a"," ","p","h","i","l","o","s","o","p","h",
      "e","r"," ","w","h","o"," ","b","r","i","d","g","e","d"," ","E","a","s",
      "t","e","r","n"," ","a","n","d"," ","W","e","s","t","e","r","n"," ","t",
      "h","o","u","g","h","t",","," ","s","p","o","k","e"," ","t","h","e","s",
      "e"," ","w","o","r","d","s"," ","a","s"," ","h","e"," ","e","x","p","l",
      "o","r","e","d"," ","h","o","w"," ","t","o"," ","f","i","n","d"," ","p",
      "e","a","c","e"," ","w","i","t","h","i","n"," ","l","i","f","e","'","s",
      " ","c","o","n","s","t","a","n","t"," ","f","l","u","x"," ","d","u","r",
      "i","n","g"," ","t","h","e"," ","c","u","l","t","u","r","a","l"," ","u",
      "p","h","e","a","v","a","l","s"," ","o","f"," ","t","h","e"," ","1","9",
      "6","0","s",".">>

FallbackQuote2 ==
    <<"E","v","e","r","y","t","h","i","n","g"," ","c","a","n"," ","b","e"," ",
      "t","a","k","e","n"," ","f","r","o","m"," ","a"," ","m","a","n"," ","b",
      "u","t"," ","o","n","e"," ","t","h","i","n","g",":"," ","t","h","e"," ",
      "l","a","s","t"," ","o","f"," ","h","u","m","a","n"," ","f","r","e","e",
      "d","o","m","s"," ","-"," ","t","o"," ","c","h","o","o","s","e"," ","o",
      "n","e","'","s"," ","a","t","t","i","t","u","d","e"," ","i","n"," ","a",
      "n","y"," ","g","i","v","e","n"," ","s","e","t"," ","o","f"," ","c","i",
      "r","c","u","m","s","t","a","n","c","e","s",".">>

FallbackAttribution2 ==
    <<"V","i","k","t","o","r"," ","F","r","a","n","k","l">>

FallbackPerspective2 ==
    <<"E","v","e","n"," ","i","n"," ","o","u","r"," ","m","o","s","t"," ","c",
      "h","a","l","l","e","n","g","i","n","g"," ","m","o","m","e","n","t","s",
      ","," ","w","e"," ","r","e","t","a","i","n"," ","t","h","e"," ","p","o",
      "w","e","r"," ","t","o"," ","c","h","o","o","s","e"," ","h","o","w"," ",
      "w","e"," ","r","e","l","a","t","e"," ","t","o"," ","o","u","r"," ","e",
      "x","p","e","r","i","e","n","c","e",".">>

FallbackContext2 ==
    <<"F","r","a","n","k","l"," ","d","i","s","c","o","v","e","r","e","d"," ",
      "t","h","i","s"," ","t","r","u","t","h"," ","w","h","i","l","e"," ","s",
      "u","r","v","i","v","i","n","g"," ","N","a","z","i"," ","c","o","n","c",
      "e","n","t","r","a","t","i","o","n"," ","c","a","m","p","s",","," ","r",
      "e","a","l","i","z","i","n","g"," ","t","h","a","t"," ","i","n","n","e",
      "r"," ","f","r","e","e","d","o","m"," ","c","o","u","l","d"," ","n","e",
      "v","e","r"," ","b","e"," ","t","a","k","e","n"," ","a","w","a","y",",",
      " ","e","v","e","n"," ","w","h","e","n"," ","e","v","e","r","y","t","h",
      "i","n","g"," ","e","l","s","e"," ","w","a","s"," ","l","o","s","t",
      ".">>

get_fallback_quotes ==
    << [ quote |-> FallbackQuote1, attribution |-> FallbackAttribution1,
         perspective |-> FallbackPerspective1, context |-> FallbackContext1 ],
       [ quote |-> FallbackQuote2, attribution |-> FallbackAttribution2,
         perspective |-> FallbackPerspective2, context |-> FallbackContext2 ] >>

KeyText(k) ==
    CASE k = "quote" -> <<"q","u","o","t","e">>
      [] k = "attribution" -> <<"a","t","t","r","i","b","u","t","i","o","n">>
      [] k = "perspective" -> <<"p","e","r","s","p","e","c","t","i","v","e">>
      [] k = "context" -> <<"c","o","n","t","e","x","t">>

\* all(key in quote for key in [...]): key lookup in an object, substring test
\* in a string; None is not iterable
HasAllKeys(item) ==
    CASE item.t = "obj" -> RequiredKeys \subseteq DOMAIN item.fields
      [] item.t = "str" -> \A k \in RequiredKeys : Contains(item.s, KeyText(k))
      [] OTHER -> FALSE

\* does the validation loop raise on this element
ItemRaises(item) ==
    CASE item.t = "null" -> TRUE
      [] item.t = "str" -> HasAllKeys(item)
      [] item.t = "obj" ->
            /\ HasAllKeys(item)
            /\ \E k \in RequiredKeys : item.fields[k].t # "str"
      [] OTHER -> TRUE

Validated(item) ==
    [ quote |-> Strip(item.fields["quote"].s),
      attribution |-> Strip(item.fields["attribution"].s),
      perspective |-> Strip(item.fields["perspective"].s),
      context |-> Strip(item.fields["context"].s) ]

RECURSIVE ValidatedQuotes(_)
ValidatedQuotes(items) ==
    IF items = <<>> THEN <<>>
    ELSE IF HasAllKeys(Head(items))
         THEN <<Validated(Head(items))>> \o ValidatedQuotes(Tail(items))
         ELSE ValidatedQuotes(Tail(items))

FirstN(s, n) == SubSeq(s, 1, Min(n, Len(s)))

\* parse_json_response without the [:3] of its last line
parse_json_response_untruncated(response_text) ==
    IF response_text.kind = "empty" THEN get_fallback_quotes
    ELSE IF response_text.kind = "invalid" THEN get_fallback_quotes
    ELSE LET data == response_text.data
         IN  IF data.t # "obj" THEN get_fallback_quotes
             ELSE IF "quotes" \notin DOMAIN data.fields THEN get_fallback_quotes
             ELSE LET quotes == data.fields["quotes"]
                  IN  IF quotes.t # "list" THEN get_fallback_quotes
                      ELSE IF \E i \in 1..Len(quotes.items) : ItemRaises(quotes.items[i])
                      THEN get_fallback_quotes
                      ELSE IF ValidatedQuotes(quotes.items) = <<>>
                      THEN get_fallback_quotes
                      ELSE ValidatedQuotes(quotes.items)

parse_json_response(response_text) ==
    IF response_text.kind = "empty" THEN get_fallback_quotes
    ELSE IF response_text.kind = "invalid" THEN get_fallback_quotes
    ELSE LET data == response_text.data
         IN  IF data.t # "obj" THEN get_fallback_quotes
             ELSE IF "quotes" \notin DOMAIN data.fields THEN get_fallback_quotes
             ELSE LET quotes == data.fields["quotes"]
                  IN  IF quotes.t # "list" THEN get_fallback_quotes
                      ELSE IF \E i \in 1..Len(quotes.items) : ItemRaises(quotes.items[i])
                      THEN get_fallback_quotes
                      ELSE IF ValidatedQuotes(quotes.items) = <<>>
                      THEN get_fallback_quotes
                      ELSE FirstN(ValidatedQuotes(quotes.items), 3)

get_wisdom_quotes(outcome) ==
    IF outcome.kind = "raise" THEN get_fallback_quotes
    ELSE parse_json_response(outcome.content)

(***************************************************************************)
(* The engine applied to the outcomes of the external call.                *)
(***************************************************************************)
T_Be == <<"B","e">>
T_Tao == <<"T","a","o">>
T_Now == <<"n","o","w">>
T_Old == <<"o","l","d">>
T_PadLeft == <<" ","g","o">>
T_PadBoth == <<" ","I"," ","a","m"," ">>
T_Blank == <<" "," ">>

Q_Good ==
    JObj([quote |-> JStr(T_Be), attribution |-> JStr(T_Tao),
          perspective |-> JStr(T_Now), context |-> JStr(T_Old)])
Q_Padded ==
    JObj([quote |-> JStr(T_PadBoth), attribution |-> JStr(T_PadLeft),
          perspective |-> JStr(T_Now), context |-> JStr(T_Old),
          source |-> JStr(T_Tao)])
Q_Missing ==
    JObj([quote |-> JStr(T_Be), attribution |-> JStr(T_Tao),
          perspective |-> JStr(T_Now)])
Q_EmptyField ==
    JObj([quote |-> JStr(T_Be), attribution |-> JStr(T_Tao),
          perspective |-> JStr(T_Now), context |-> JStr(<<>>)])
Q_BlankField ==
    JObj([quote |-> JStr(T_Blank), attribution |-> JStr(T_Tao),
          perspective |-> JStr(T_Now), context |-> JStr(T_Old)])
Q_NullField ==
    JObj([quote |-> JStr(T_Be), attribution |-> JStr(T_Tao),
          perspective |-> JStr(T_Now), context |-> JNull])

QuoteItems ==
    {Q_Good, Q_Padded, Q_Missing, Q_EmptyField, Q_BlankField, Q_NullField,
     JStr(T_Be), JNull}

\* the longest quotes array the model lets the external service return
MaxQuotes == 4

SeqsUpTo(S, n) == UNION {[1..k -> S] : k \in 0..n}

Body(data) == [kind |-> "ok", content |-> [kind |-> "json", data |-> data]]

LlmOutcomes ==
    {[kind |-> "raise"],
     [kind |-> "ok", content |-> [kind |-> "empty"]],
     [kind |-> "ok", content |-> [kind |-> "invalid"]],
     Body(JList(<<Q_Good>>)),
     Body(JObj([answer |-> JList(<<Q_Good>>)])),
     Body(JObj([quotes |-> JNull])),
     Body(JObj([quotes |-> JStr(T_Be)]))}
    \cup {Body(JObj([quotes |-> JList(items)])) :
              items \in SeqsUpTo(QuoteItems, MaxQuotes)}

DbIdle ==
    /\ now = 30
    /\ rl = NewLimiter(DefaultDailyBudget, DefaultMaxQuotesPerIpHour, now)
    /\ DbInit

AllUnchanged == UNCHANGED now /\ UNCHANGED rl /\ DbUnchanged

\* the external service has answered; the engine has not looked at it yet
EngineInit ==
    /\ DbIdle
    /\ \E o \in LlmOutcomes : last = [op |-> "llm_outcome", outcome |-> o]

GetWisdomQuotes ==
    /\ last.op = "llm_outcome"
    /\ last' = [ op |-> "get_wisdom_quotes", outcome |-> last.outcome,
                 result |-> get_wisdom_quotes(last.outcome) ]
    /\ AllUnchanged

EngineNext == GetWisdomQuotes

SpecEngine == EngineInit /\ [][EngineNext]_vars

\* the quotes array of a well-formed response, or <<>>
ItemsOf(outcome) ==
    IF /\ outcome.kind = "ok"
       /\ outcome.content.kind = "json"
       /\ outcome.content.data.t = "obj"
       /\ "quotes" \in DOMAIN outcome.content.data.fields
       /\ outcome.content.data.fields["quotes"].t = "list"
    THEN outcome.content.data.fields["quotes"].items
    ELSE <<>>

Carries(item) == item.t = "obj" /\ RequiredKeys \subseteq DOMAIN item.fields
Carriers(outcome) == SelectSeq(ItemsOf(outcome), Carries)

\* result quote r is item's four fields, trimmed
IsTrimmed(r, item) ==
    /\ DOMAIN r = RequiredKeys
    /\ \A k \in RequiredKeys :
           /\ item.fields[k].t = "str"
           /\ r[k] = Strip(item.fields[k].s)

IsFirstCarriers(result, outcome) ==
    /\ Len(result) = Min(3, Len(Carriers(outcome)))
    /\ \A i \in 1..Len(result) : IsTrimmed(result[i], Carriers(outcome)[i])

IsFallback(result) ==
    /\ Len(result) = 2
    /\ result[1].attribution = FallbackAttribution1
    /\ result[1].quote = FallbackQuote1
    /\ result[2].attribution = FallbackAttribution2
    /\ result[2].quote = FallbackQuote2
    /\ result = get_fallback_quotes

Engined == last.op = "get_wisdom_quotes"

Unprocessable(outcome) ==
    \E i \in 1..Len(ItemsOf(outcome)) :
        LET item == ItemsOf(outcome)[i]
        IN  \/ item.t = "null"
            \/ /\ Carries(item)
               /\ \E k \in RequiredKeys : item.fields[k].t # "str"

Digits == <<"0","1","2","3","4","5","6","7","8","9">>

IsDigit(c) == \E i \in 1..Len(Digits) : Digits[i] = c
DigitValue(c) == (CHOOSE i \in 1..Len(Digits) : Digits[i] = c) - 1

RECURSIVE FormatNat(_)
FormatNat(n) ==
    IF n < 10 THEN <<Digits[n + 1]>>
    ELSE FormatNat(n \div 10) \o <<Digits[(n % 10) + 1]>>

\* str(n), as an f-string formats an integer
FormatInt(n) == IF n < 0 THEN <<"-">> \o FormatNat(0 - n) ELSE FormatNat(n)

RECURSIVE DigitsValue(_)
DigitsValue(s) ==
    IF s = <<>> THEN 0
    ELSE DigitsValue(SubSeq(s, 1, Len(s) - 1)) * 10 + DigitValue(s[Len(s)])

Failed == [ok |-> FALSE]
Parsed(n) == [ok |-> TRUE, value |-> n]

\* Python int(text): surrounding whitespace is dropped, one sign is allowed, and
\* single underscores may separate digits
PyInt(text) ==
    LET t == Strip(text)
        signed == t # <<>> /\ t[1] \in {"-", "+"}
        body == IF signed THEN Tail(t) ELSE t
        wellFormed ==
            /\ body # <<>>
            /\ IsDigit(body[1])
            /\ IsDigit(body[Len(body)])
            /\ \A i \in 1..Len(body) : IsDigit(body[i]) \/ body[i] = "_"
            /\ \A i \in 1..(Len(body) - 1) : ~(body[i] = "_" /\ body[i + 1] = "_")
        magnitude == DigitsValue(SelectSeq(body, IsDigit))
    IN  IF ~wellFormed THEN Failed
        ELSE Parsed(IF signed /\ t[1] = "-" THEN 0 - magnitude ELSE magnitude)

\* the integer a text primary key stands for in the store's comparison with
\* the integer id column; no row matches a text that is no integer
DbInt(text) ==
    LET signed == text # <<>> /\ text[1] = "-"
        body == IF signed THEN Tail(text) ELSE text
    IN  IF body = <<>> \/ \E i \in 1..Len(body) : ~IsDigit(body[i]) THEN Failed
        ELSE Parsed(IF signed THEN 0 - DigitsValue(body) ELSE DigitsValue(body))

HasUnderscore(s) == \E i \in 1..Len(s) : s[i] = "_"

\* s.split('_', 1) of a text that holds an underscore
SplitFirst(s) ==
    LET i == CHOOSE j \in 1..Len(s) :
                 s[j] = "_" /\ \A k \in 1..(j - 1) : s[k] # "_"
    IN  <<SubSeq(s, 1, i - 1), SubSeq(s, i + 1, Len(s))>>

\* f"{cache_id}_{index}"
CompositeId(cache_id, index) == FormatInt(cache_id) \o <<"_">> \o FormatInt(index)

\* list[i] in Python: a negative index counts from the end
PyIndex(list, i) ==
    IF 0 <= i /\ i < Len(list) THEN Parsed(list[i + 1])
    ELSE IF i < 0 /\ 0 - i <= Len(list) THEN Parsed(list[Len(list) + i + 1])
    ELSE Failed

(***************************************************************************)
(* Request validation (lib/api/response_formatter.py, lib/mcp/tools.py).   *)
(***************************************************************************)
JNum(n) == [t |-> "num", n |-> n]

MinInputLength == 3
MaxInputLength == 500

ValidStyles == {"inspirational", "practical", "philosophical", "humorous"}

Rejected(message) == [ok |-> FALSE, error |-> message]
Accepted(value) == [ok |-> TRUE, value |-> value]

\* QuoteRequest._validate_input as it would be with <= in the upper test
validate_input_off_by_one(input_text) ==
    IF input_text.t = "null" THEN Rejected("Input is required")
    ELSE IF input_text.t # "str" THEN Rejected("Input must be a string")
    ELSE LET cleaned == Strip(input_text.s)
         IN  IF Len(cleaned) < MinInputLength
             THEN Rejected("Input too short (minimum 3 characters)")
             ELSE IF Len(cleaned) >= MaxInputLength
             THEN Rejected("Input too long (maximum 500 characters)")
             ELSE Accepted(cleaned)

\* QuoteRequest._validate_input; the argument is a JSON value
validate_input(input_text) ==
    IF input_text.t = "null" THEN Rejected("Input is required")
    ELSE IF input_text.t # "str" THEN Rejected("Input must be a string")
    ELSE LET cleaned == Strip(input_text.s)
         IN  IF Len(cleaned) = 0
             THEN Rejected("Input too short (minimum 3 characters)")
             ELSE IF Len(cleaned) < MinInputLength
             THEN Rejected("Input too short (minimum 3 characters)")
             ELSE IF Len(cleaned) > MaxInputLength
             THEN Rejected("Input too long (maximum 500 characters)")
             ELSE Accepted(cleaned)

\* QuoteRequest._validate_style; a style is a JSON null or a plain string
validate_style(style) ==
    IF style.t = "null" THEN Accepted("inspirational")
    ELSE IF style.t # "name" THEN Rejected("Style must be a string")
    ELSE IF style.name \notin ValidStyles THEN Rejected("Invalid style")
    ELSE Accepted(style.name)

Style(name) == [t |-> "name", name |-> name]

\* QuoteRequest(data): the input is validated before the style
QuoteRequest(input_text, style) ==
    IF ~validate_input(input_text).ok THEN validate_input(input_text)
    ELSE IF ~validate_style(style).ok THEN validate_style(style)
    ELSE [ok |-> TRUE, input |-> validate_input(input_text).value,
          style |-> validate_style(style).value]

(***************************************************************************)
(* The quote cache and the WisdomService facade                            *)
(* (models.py, lib/api/wisdom_service.py).                                 *)
(***************************************************************************)
\* hashlib.sha256(text.encode()).hexdigest(): a digest, taken to be free of
\* collisions
create_input_hash(input_text) == <<"sha256", input_text>>

\* json.dumps of a list of quote dictionaries, and json.loads of the result
json_dumps(quotes_data) == [json |-> quotes_data]
json_loads(response_data) == response_data.json

NewRow(input_hash, user_input, quotes_data) ==
    [ input_hash |-> input_hash, user_input |-> user_input,
      response_data |-> json_dumps(quotes_data) ]

\* QuoteCache.query.filter_by(input_hash=h).first(): the ids of the matching rows
RowsByHash(cache, h) == {id \in DOMAIN cache : cache[id].input_hash = h}
FirstByHash(cache, h) ==
    CHOOSE id \in RowsByHash(cache, h) : \A other \in RowsByHash(cache, h) : id <= other

\* the insert of a row: the unique index on input_hash refuses a second row
CanInsert(cache, h, write_ok) == write_ok /\ RowsByHash(cache, h) = {}

Inserted(cache, id, row) ==
    [k \in DOMAIN cache \cup {id} |-> IF k = id THEN row ELSE cache[k]]

\* WisdomQuote.from_legacy_response
WisdomQuote(legacy_data, quote_id, style) ==
    [ quote_id |-> quote_id,
      quote |-> legacy_data.quote,
      attribution |-> legacy_data.attribution,
      perspective |-> legacy_data.perspective,
      context |-> legacy_data.context,
      style |-> style ]

\* _estimate_openai_cost, in units of 1e-8 USD: 0.00015 USD per 1000 input
\* tokens, 0.0006 USD per 1000 output tokens
InputTokenCost == 15
OutputTokenCost == 60
PromptTokens == 150

RECURSIVE OutputTokens(_)
OutputTokens(quotes) ==
    IF quotes = <<>> THEN 0
    ELSE WordCount(Head(quotes).quote \o Head(quotes).attribution
                   \o Head(quotes).perspective \o Head(quotes).context)
         + OutputTokens(Tail(quotes))

estimate_openai_cost(input_text, quotes) ==
    (WordCount(input_text) + PromptTokens) * InputTokenCost
        + OutputTokens(quotes) * OutputTokenCost

\* _get_cached_quote_by_hash as it would be if it never found a row
get_cached_quote_by_hash_blind(cache, input_hash, read_ok) == None

\* _get_cached_quote_by_hash: a failed read and an empty array both count as a miss
get_cached_quote_by_hash(cache, input_hash, read_ok) ==
    IF ~read_ok THEN None
    ELSE IF RowsByHash(cache, input_hash) = {} THEN None
    ELSE LET id == FirstByHash(cache, input_hash)
             quotes_data == json_loads(cache[id].response_data)
         IN  IF Len(quotes_data) = 0 THEN None
             ELSE Some([legacy_data |-> quotes_data[1],
                        quote_id |-> CompositeId(id, 0)])

\* _store_quotes_in_cache as it would be if a refused commit still gave the key
store_quotes_in_cache_id_lost(stored, nid) == nid

\* the id _store_quotes_in_cache returns: the row's key, or the dummy 0 when
\* the insert or the commit failed
store_quotes_in_cache_id(stored, nid) == IF stored THEN nid ELSE 0

\* the test before record_request as it would be if it ignored track_cost
tracks_cost_ignoring_flag(track_cost, self_rate_limiter) == self_rate_limiter

\* "if track_cost and self.rate_limiter"
tracks_cost(track_cost, self_rate_limiter) == track_cost /\ self_rate_limiter

Returned(q) == [outcome |-> "returned", quote |-> q]
Raised(error, message) == [outcome |-> "raised", error |-> error, message |-> message]

\* the messages of the handler that re-wraps what generation raised: the text
\* of a failed import of openai_service, and of the raise for an empty result,
\* both of which contain "openai"
Unavailable(message) ==
    Raised("ServiceUnavailableError",
           "Quote generation service temporarily unavailable: " \o message)

\* generate_quote: what it returns or raises, the store and the limiter as it
\* leaves them, and the number of external calls it made.  self_rate_limiter
\* tells whether the service was built with a limiter; read_ok, write_ok say
\* whether the store answers the lookup and accepts the commit; burn says
\* whether a refused insert consumes a primary key.  An outcome of kind
\* "import_error" is a failed import of openai_service inside the try block.
generate_quote(self_rate_limiter, cache, nid, limiter, input_text, style, client_ip, track_cost, outcome, read_ok, write_ok, burn, t) ==
    LET request == QuoteRequest(input_text, style)
        unchanged == [cache |-> cache, next_id |-> nid, rl |-> limiter, called |-> 0]
    IN  IF ~request.ok
        THEN unchanged @@
             [result |-> Raised("ValidationError", request.error), hit |-> FALSE]
        ELSE LET h == create_input_hash(request.input)
                 cached == get_cached_quote_by_hash(cache, h, read_ok)
             IN  IF cached # None
                 THEN unchanged @@
                      [result |-> Returned(WisdomQuote(cached[1].legacy_data,
                                      cached[1].quote_id, request.style)),
                       hit |-> TRUE]
                 ELSE IF outcome.kind = "import_error"
                 THEN unchanged @@
                      [result |-> Unavailable("No module named 'openai'"),
                       hit |-> FALSE]
                 ELSE LET legacy_quotes == get_wisdom_quotes(outcome)
                          stored == CanInsert(cache, h, write_ok)
                          id == store_quotes_in_cache_id(stored, nid)
                      IN  IF Len(legacy_quotes) = 0
                          THEN [unchanged EXCEPT !.called = 1] @@
                               [result |-> Unavailable(
                                    "No quotes generated from OpenAI service"),
                                hit |-> FALSE]
                          ELSE
                          [ cache |-> IF stored
                                      THEN Inserted(cache, nid,
                                               NewRow(h, request.input, legacy_quotes))
                                      ELSE cache,
                            next_id |-> IF stored \/ burn THEN nid + 1 ELSE nid,
                            rl |-> IF tracks_cost(track_cost, self_rate_limiter)
                                   THEN record_request_state(limiter, client_ip,
                                            Some(estimate_openai_cost(request.input,
                                                                      legacy_quotes)), t)
                                   ELSE limiter,
                            called |-> 1,
                            result |-> Returned(WisdomQuote(legacy_quotes[1],
                                          CompositeId(id, 0), request.style)),
                            hit |-> FALSE ]

Absent == [found |-> FALSE]
Found(q) == [found |-> TRUE, quote |-> q]

\* QuoteCache.query.get(cache_id) with the text of the id
RowByKey(cache, cache_id, read_ok) ==
    IF ~read_ok \/ ~DbInt(cache_id).ok THEN None
    ELSE IF DbInt(cache_id).value \in DOMAIN cache
    THEN Some(cache[DbInt(cache_id).value])
    ELSE None

\* _get_cached_quote_by_cache_id as it would be if it ignored the index
get_cached_quote_by_cache_id_first(cache, cache_id, quote_index, read_ok) ==
    LET row == RowByKey(cache, cache_id, read_ok)
    IN  IF row = None THEN None
        ELSE Some([legacy_data |-> json_loads(row[1].response_data)[1]])

\* _get_cached_quote_by_cache_id
get_cached_quote_by_cache_id(cache, cache_id, quote_index, read_ok) ==
    LET row == RowByKey(cache, cache_id, read_ok)
    IN  IF row = None THEN None
        ELSE LET quotes_data == json_loads(row[1].response_data)
             IN  IF quote_index >= Len(quotes_data) THEN None
                 ELSE IF ~PyIndex(quotes_data, quote_index).ok THEN None
                 ELSE Some([legacy_data |-> PyIndex(quotes_data, quote_index).value])

\* get_cached_quote as it would be with an off-by-one bounds check
get_cached_quote_off_by_one(cache, quote_id, read_ok) ==
    IF ~HasUnderscore(quote_id) THEN Absent
    ELSE LET parts == SplitFirst(quote_id)
             index == PyInt(parts[2])
             row == RowByKey(cache, parts[1], read_ok)
         IN  IF ~index.ok \/ row = None THEN Absent
             ELSE LET quotes_data == json_loads(row[1].response_data)
                      at == PyIndex(quotes_data, index.value - 1)
                  IN  IF index.value > Len(quotes_data) \/ ~at.ok THEN Absent
                      ELSE Found(WisdomQuote(at.value, quote_id, "inspirational"))

\* get_cached_quote: every exception ends in None
get_cached_quote(cache, quote_id, read_ok) ==
    IF ~HasUnderscore(quote_id) THEN Absent
    ELSE LET parts == SplitFirst(quote_id)
             index == PyInt(parts[2])
         IN  IF ~index.ok THEN Absent
             ELSE LET cached_data ==
                          get_cached_quote_by_cache_id(cache, parts[1],
                                                       index.value, read_ok)
                  IN  IF cached_data = None THEN Absent
                      ELSE Found(WisdomQuote(cached_data[1].legacy_data, quote_id,
                                             "inspirational"))

(***************************************************************************)
(* The MCP tool generate_wisdom_quote (lib/mcp/tools.py).                  *)
(***************************************************************************)
ToolError(message) == [error |-> TRUE, message |-> message]
ToolText(q) == [error |-> FALSE, quote |-> q]

McpClientIp == "127.0.0.1"

\* lines 140-154 of _handle_generate_wisdom_quote: parameters is a function
\* from parameter names to JSON values; .strip() of a value that is no string
\* raises, and the handler answers with "Quote generation failed"
mcp_validate_generate(parameters) ==
    LET raw == IF "user_input" \in DOMAIN parameters
               THEN parameters["user_input"] ELSE JStr(<<>>)
        style == IF "style" \in DOMAIN parameters
                 THEN parameters["style"] ELSE Style("inspirational")
    IN  IF raw.t # "str" THEN Rejected("Quote generation failed")
        ELSE LET user_input == Strip(raw.s)
             IN  IF user_input = <<>> THEN Rejected("user_input is required")
                 ELSE IF Len(user_input) < MinInputLength
                 THEN Rejected("user_input must be at least 3 characters")
                 ELSE IF Len(user_input) > MaxInputLength
                 THEN Rejected("user_input must be 500 characters or less")
                 ELSE IF style.t # "name" \/ style.name \notin ValidStyles
                 THEN Rejected("Invalid style")
                 ELSE Accepted([user_input |-> user_input, style |-> style])

\* _handle_generate_wisdom_quote: the response, and the store and limiter as
\* the call leaves them
\* lines 165-184 of _handle_generate_wisdom_quote: the response that follows
\* the service's generate_quote, g being what that call returned or raised and
\* left behind
generate_wisdom_quote_response(g) ==
    [ cache |-> g.cache, next_id |-> g.next_id, rl |-> g.rl,
      called |-> g.called, hit |-> g.hit,
      response |-> IF g.result.outcome = "returned"
                   THEN ToolText(g.result.quote)
                   ELSE IF g.result.error = "ValidationError"
                   THEN ToolError("Validation error: " \o g.result.message)
                   ELSE ToolError("Service unavailable: " \o g.result.message) ]

handle_generate_wisdom_quote(cache, nid, limiter, parameters, outcome, read_ok, write_ok, burn, t) ==
    LET v == mcp_validate_generate(parameters)
    IN  IF ~v.ok
        THEN [ cache |-> cache, next_id |-> nid, rl |-> limiter, called |-> 0,
               hit |-> FALSE, response |-> ToolError(v.error) ]
        ELSE generate_wisdom_quote_response(
                 generate_quote(TRUE, cache, nid, limiter,
                                JStr(v.value.user_input), v.value.style,
                                McpClientIp, TRUE, outcome, read_ok,
                                write_ok, burn, t))

(***************************************************************************)
(* The tool dispatcher and the other tools (lib/mcp/tools.py), and the     *)
(* JSON-RPC server in front of them (lib/mcp/server.py).                   *)
(*                                                                         *)
(* A text built by an f-string is the sequence of its segments, the        *)
(* literal first.  A JSON string whose characters do not matter is         *)
(* [t |-> "name", name |-> string].                                        *)
(***************************************************************************)
\* _error_response as it would be without the "Error: " prefix
error_response_bare(message) ==
    [ type |-> "text", text |-> message,
      metadata |-> [error |-> TRUE, message |-> message] ]

\* _error_response
error_response(message) ==
    [ type |-> "text", text |-> <<"Error: ">> \o message,
      metadata |-> [error |-> TRUE, message |-> message] ]

\* the response of the two tools that answer with a quote
quote_response(q) ==
    [ type |-> "text",
      text |-> <<"\"", q.quote, "\"\n\n- ", q.attribution, "\n\n", q.perspective>>,
      metadata |-> [ quote_id |-> q.quote_id, quote |-> q.quote,
                     attribution |-> q.attribution,
                     perspective |-> q.perspective, context |-> q.context,
                     style |-> q.style,
                     image_url |-> <<"https://app.vercel.app/api/v1/images/",
                                     q.quote_id>> ] ]

\* dict.get(key, default)
GetOr(fields, key, default) ==
    IF key \in DOMAIN fields THEN fields[key] ELSE default

NoAttribute(name) == "object has no attribute '" \o name \o "'"

\* _handle_create_quote_image; parameters is the dictionary's function
handle_create_quote_image(cache, parameters, read_ok) ==
    LET raw == GetOr(parameters, "quote_id", JStr(<<>>))
        design == GetOr(parameters, "design", JNum(3))
    IN  IF raw.t # "str"
        THEN error_response(<<"Image creation failed: ", NoAttribute("strip")>>)
        ELSE LET quote_id == Strip(raw.s)
             IN  IF quote_id = <<>> THEN error_response(<<"quote_id is required">>)
                 ELSE IF design.t # "num" \/ design.n < 1 \/ design.n > 4
                 THEN error_response(<<"design must be an integer between 1 and 4">>)
                 ELSE LET wisdom_quote == get_cached_quote(cache, quote_id, read_ok)
                      IN  IF ~wisdom_quote.found
                          THEN error_response(<<"Quote not found: ", quote_id>>)
                          ELSE [ type |-> "text",
                                 text |-> <<"Quote image generated for: \"",
                                            FirstN(wisdom_quote.quote.quote, 50),
                                            "...\"">>,
                                 metadata |->
                                     [ quote_id |-> quote_id,
                                       image_url |->
                                           <<"https://app.vercel.app/api/v1/images/",
                                             quote_id, "?design=", design.n>>,
                                       design |-> design.n,
                                       quote |-> wisdom_quote.quote.quote,
                                       attribution |->
                                           wisdom_quote.quote.attribution ] ]

\* _handle_get_wisdom_quote
handle_get_wisdom_quote(cache, parameters, read_ok) ==
    LET raw == GetOr(parameters, "quote_id", JStr(<<>>))
    IN  IF raw.t # "str"
        THEN error_response(<<"Quote retrieval failed: ", NoAttribute("strip")>>)
        ELSE LET quote_id == Strip(raw.s)
             IN  IF quote_id = <<>> THEN error_response(<<"quote_id is required">>)
                 ELSE LET wisdom_quote == get_cached_quote(cache, quote_id, read_ok)
                      IN  IF ~wisdom_quote.found
                          THEN error_response(<<"Quote not found: ", quote_id>>)
                          ELSE quote_response(wisdom_quote.quote)

\* _handle_get_system_status, given the limiter as get_quota_status left it
handle_get_system_status(s) ==
    LET quota_status == get_quota_status(s)
        daily == Max(0, quota_status.max_quotes_per_day
                        - quota_status.global_daily_count)
        hourly == Max(0, quota_status.max_quotes_per_hour
                         - quota_status.global_hourly_count)
    IN  [ type |-> "text",
          text |-> <<"PerspectiveShifter is operational.\n\nDaily quota remaining: ",
                     daily, " quotes\nBudget remaining: $",
                     quota_status.cost_info.daily_remaining_usd>>,
          metadata |->
              [ service |-> "PerspectiveShifter Wisdom Service",
                status |-> "operational",
                daily_quota_remaining |-> daily,
                hourly_quota_remaining |-> hourly,
                budget_remaining_usd |->
                    quota_status.cost_info.daily_remaining_usd,
                estimated_requests_remaining |->
                    quota_status.cost_info.estimated_requests_remaining ] ]

ToolNames ==
    {"generate_wisdom_quote", "create_quote_image", "get_wisdom_quote",
     "get_system_status"}

\* the failure prefix of each handler's own "except Exception"
HandlerFailure(tool) ==
    IF tool = "generate_wisdom_quote" THEN "Quote generation failed: "
    ELSE IF tool = "create_quote_image" THEN "Image creation failed: "
    ELSE IF tool = "get_wisdom_quote" THEN "Quote retrieval failed: "
    ELSE "Status check failed: "

\* the dictionary _handle_generate_wisdom_quote returns (lines 166-179, or
\* _error_response), r being the handler's outcome
generated_tool_response(r) ==
    [ cache |-> r.cache, next_id |-> r.next_id, rl |-> r.rl, called |-> r.called,
      response |-> IF r.response.error
                   THEN error_response(<<r.response.message>>)
                   ELSE quote_response(r.response.quote) ]

\* MCPToolHandler.execute_tool, which execute_mcp_tool calls: the response, and
\* the store and the limiter as the call leaves them.  tool_name and
\* parameters are JSON values; parameters.get of a value that is no object
\* raises inside the handler's own try block.
execute_tool(tool_name, parameters, cache, nid, limiter, outcome, read_ok, write_ok, burn, t) ==
    LET same == [cache |-> cache, next_id |-> nid, rl |-> limiter, called |-> 0]
        known == tool_name.t = "name" /\ tool_name.name \in ToolNames
    IN  IF ~known
        THEN same @@ [response |-> error_response(<<"Unknown tool: ", tool_name>>)]
        ELSE IF tool_name.name = "get_system_status"
        THEN LET s == reset_global_counters_if_needed(limiter, t)
             IN  [same EXCEPT !.rl = s] @@ [response |-> handle_get_system_status(s)]
        ELSE IF parameters.t # "obj"
        THEN same @@ [response |-> error_response(
                          <<HandlerFailure(tool_name.name), NoAttribute("get")>>)]
        ELSE IF tool_name.name = "generate_wisdom_quote"
        THEN generated_tool_response(
                 handle_generate_wisdom_quote(cache, nid, limiter,
                     parameters.fields, outcome, read_ok, write_ok, burn, t))
        ELSE IF tool_name.name = "create_quote_image"
        THEN same @@ [response |->
                          handle_create_quote_image(cache, parameters.fields, read_ok)]
        ELSE same @@ [response |->
                          handle_get_wisdom_quote(cache, parameters.fields, read_ok)]

\* MCPServer.get_server_info and MCPServer.list_tools
get_server_info ==
    [ name |-> "perspectiveshifter", version |-> "1.0.0",
      protocol_version |-> "2024-11-05" ]
list_tools == [tools |-> ToolNames]

\* MCPServer.call_tool: execute_mcp_tool returned, so isError is False
call_tool(result) == [content |-> <<result>>, isError |-> FALSE]

\* JSON-RPC error codes
MethodNotFound == -32601
InternalError == -32603

RpcResult(request_id, response_data) ==
    [jsonrpc |-> "2.0", id |-> request_id, result |-> response_data]
RpcError(request_id, code, message) ==
    [ jsonrpc |-> "2.0", id |-> request_id,
      error |-> [code |-> code, message |-> message] ]

Answered(response) == [outcome |-> "returned", response |-> response]

\* lines 139 and 152-156 of handle_request: the answer to tools/call, r being
\* what execute_mcp_tool returned and left behind
tool_call_result(request_id, r) ==
    [ cache |-> r.cache, next_id |-> r.next_id, rl |-> r.rl, called |-> r.called,
      result |-> Answered(RpcResult(request_id, call_tool(r.response))) ]

\* MCPServer.handle_request: what it returns or raises, and the store and the
\* limiter as it leaves them.  request is the JSON value read from the line.
\* request.get of a value that is no object raises AttributeError in the try
\* block and again in the handler of line 158, which reads request.get("id").
handle_request(request, cache, nid, limiter, outcome, read_ok, write_ok, burn, t) ==
    LET same == [cache |-> cache, next_id |-> nid, rl |-> limiter, called |-> 0]
    IN  IF request.t # "obj"
        THEN same @@ [result |-> Raised("AttributeError", NoAttribute("get"))]
        ELSE LET method == GetOr(request.fields, "method", JNull)
                 params == GetOr(request.fields, "params", JObj(<<>>))
                 request_id == GetOr(request.fields, "id", JNull)
             IN  IF method = Style("initialize")
                 THEN same @@ [result |-> Answered(RpcResult(request_id,
                                                             get_server_info))]
                 ELSE IF method = Style("tools/list")
                 THEN same @@ [result |-> Answered(RpcResult(request_id, list_tools))]
                 ELSE IF method = Style("tools/call")
                 THEN IF params.t # "obj"
                      THEN same @@
                           [result |-> Answered(RpcError(request_id, InternalError,
                               <<"Internal error: ", NoAttribute("get")>>))]
                      ELSE LET tool_name == GetOr(params.fields, "name", JNull)
                               arguments ==
                                   GetOr(params.fields, "arguments", JObj(<<>>))
                           IN  tool_call_result(request_id,
                                   execute_tool(tool_name, arguments, cache, nid,
                                       limiter, outcome, read_ok, write_ok, burn, t))
                 ELSE same @@
                      [result |-> Answered(RpcError(request_id, MethodNotFound,
                                      <<"Method not found: ", method>>))]

(***************************************************************************)
(* The web routes POST /shift and POST /track-share/<quote_id> (routes.py).*)
(***************************************************************************)
Today(t) == t \div SecondsPerDay

\* DailyStats.query.filter_by(date=today).first(): the position of the first
\* row of the date in the table, 0 when there is none
FirstOfDate(stats, d) ==
    LET rows == {i \in 1..Len(stats) : stats[i].date = d}
    IN  IF rows = {} THEN 0 ELSE CHOOSE i \in rows : \A j \in rows : i <= j

\* update_daily_stats: the table daily_stats is the sequence of its rows
update_daily_stats(stats, t) ==
    LET i == FirstOfDate(stats, Today(t))
    IN  IF i = 0
        THEN Append(stats, [date |-> Today(t), total_shifts |-> 1])
        ELSE [stats EXCEPT ![i].total_shifts = @ + 1]

RECURSIVE TagFrom(_, _, _)
TagFrom(quotes_data, cache_id, i) ==
    IF quotes_data = <<>> THEN <<>>
    ELSE <<[quote |-> Head(quotes_data), id |-> CompositeId(cache_id, i)]>>
         \o TagFrom(Tail(quotes_data), cache_id, i + 1)

\* quote['id'] = f"{cache_id}_{i}" for i, quote in enumerate(quotes_data)
Tagged(quotes_data, cache_id) == TagFrom(quotes_data, cache_id, 0)

FailurePoints == {"none", "lookup", "insert", "stats", "display"}

\* shift_perspective: fail_at names the database call that raises, if any;
\* every exception ends in the error redirect, with what was committed before
\* it kept
shift_perspective(cache, nid, stats, user_input, outcome, fail_at, burn, t) ==
    LET text == Strip(user_input)
        h == create_input_hash(text)
        idle == [cache |-> cache, next_id |-> nid, stats |-> stats, called |-> 0,
                 text |-> text, quotes |-> <<>>]
    IN  IF text = <<>> THEN idle @@ [status |-> "rejected"]
        ELSE IF fail_at = "lookup" THEN idle @@ [status |-> "error"]
        ELSE LET hit == RowsByHash(cache, h) # {}
                 quotes_data == IF hit
                                THEN json_loads(cache[FirstByHash(cache, h)].response_data)
                                ELSE get_wisdom_quotes(outcome)
                 called == IF hit THEN 0 ELSE 1
             IN  IF ~hit /\ fail_at = "insert"
                 THEN [idle EXCEPT !.called = 1,
                                   !.next_id = IF burn THEN nid + 1 ELSE nid]
                      @@ [status |-> "error"]
                 ELSE LET id == IF hit THEN FirstByHash(cache, h) ELSE nid
                          stored == [idle EXCEPT
                              !.cache = IF hit THEN cache
                                        ELSE Inserted(cache, nid,
                                                 NewRow(h, text, quotes_data)),
                              !.next_id = IF hit THEN nid ELSE nid + 1,
                              !.called = called]
                      IN  IF fail_at = "stats" THEN stored @@ [status |-> "error"]
                          ELSE LET counted ==
                                       [stored EXCEPT !.stats = update_daily_stats(stats, t)]
                               IN  IF fail_at = "display"
                                   THEN counted @@ [status |-> "error"]
                                   ELSE [counted EXCEPT !.quotes = Tagged(quotes_data, id)]
                                        @@ [status |-> "rendered"]

SharePlatforms ==
    { <<"x">>, <<"l","i","n","k","e","d","i","n">>, <<"n","a","t","i","v","e">>,
      <<"i","n","s","t","a","g","r","a","m">> }

\* the truth value Python gives a JSON value
Truthy(v) ==
    CASE v.t = "null" -> FALSE
      [] v.t = "str" -> v.s # <<>>
      [] v.t = "num" -> v.n # 0
      [] v.t = "list" -> v.items # <<>>
      [] v.t = "obj" -> DOMAIN v.fields # {}
      [] OTHER -> TRUE

Status(code, entries) == [status |-> code, shares |-> entries]

\* track_share: body is the request's JSON body, [kind |-> "json", data |-> v],
\* or [kind |-> "none"] for a request without a JSON body.  request.json
\* raises for such a request in every Flask release that the application's
\* SQLAlchemy(model_class=Base) over DeclarativeBase can run on, and the
\* handler's except clause turns that into status 500.  fk_enforced says
\* whether the store checks share_stats.quote_id against quote_cache.id.
track_share(cache, shares, quote_id, body, write_ok, fk_enforced) ==
    IF ~HasUnderscore(quote_id) THEN Status(400, shares)
    ELSE IF body.kind # "json" THEN Status(500, shares)
    ELSE IF Truthy(body.data) /\ body.data.t # "obj" THEN Status(500, shares)
    ELSE LET platform == IF Truthy(body.data) /\ "platform" \in DOMAIN body.data.fields
                         THEN body.data.fields["platform"] ELSE JNull
             cache_id == PyInt(SplitFirst(quote_id)[1])
         IN  IF platform.t = "str" /\ platform.s \in SharePlatforms
             THEN IF ~cache_id.ok THEN Status(500, shares)
                  ELSE IF ~write_ok THEN Status(500, shares)
                  ELSE IF fk_enforced /\ cache_id.value \notin DOMAIN cache
                  THEN Status(500, shares)
                  ELSE Status(200, Append(shares, [quote_id |-> cache_id.value,
                                                   platform |-> platform.s]))
             ELSE Status(400, shares)

(***************************************************************************)
(* The store specification: the facade and POST /shift over one quote      *)
(* cache.  The clock stands still and the service carries no limiter.      *)
(***************************************************************************)
MaxCalls == 2
MaxShifts == 2

In_abc == <<"a","b","c">>
In_ab == <<"a","b">>
In_to_be == <<"t","o"," ","b","e">>
In_padded == <<" ">> \o In_abc \o <<" ">>

FacadeInputs == {JStr(In_padded), JStr(In_to_be), JStr(In_ab)}
FormInputs == {<<>>, In_abc, In_ab}
FacadeStyles == {Style("practical")}

StoreOutcomes ==
    { Body(JObj([quotes |-> JList(<<Q_Good, Q_Padded>>)])),
      Body(JObj([quotes |-> JList(<<Q_EmptyField, Q_Padded, Q_Good, Q_Good>>)])) }

\* how a commit can go: accepted, refused, or refused with the key consumed
WriteModes == {"ok", "fail", "fail_burn"}

\* what a submission left behind, for the next one to be compared with
Submission(l) ==
    IF l.op \in {"generate_quote", "shift"} /\ l.served
    THEN Some([text |-> l.text, prior |-> l.prior, created |-> l.created,
               ids |-> l.ids])
    ELSE None

RowIds(cache) == DOMAIN cache

\* the cap on the counter of external calls; rows and primary keys are
\* bounded with it, a row or a consumed key taking a call
Bounded(calls) == calls <= MaxCalls

StoreInit ==
    /\ DbIdle
    /\ last = [op |-> "init"]

GenerateQuote(input_text, style, outcome, read_ok, write) ==
    \E g \in {generate_quote(FALSE, quote_cache, next_id, rl, input_text, style,
                               McpClientIp, TRUE, outcome, read_ok, write = "ok",
                               write = "fail_burn", now)} :
    LET served == g.result.outcome = "returned"
        text == IF input_text.t = "str" THEN Strip(input_text.s) ELSE <<>>
    IN  /\ Bounded(llm_calls + g.called)
        /\ quote_cache' = g.cache
        /\ next_id' = g.next_id
        /\ rl' = g.rl
        /\ llm_calls' = llm_calls + g.called
        /\ last' = [ op |-> "generate_quote", text |-> text, served |-> served,
                     read_ok |-> read_ok,
                     prior |-> RowsByHash(quote_cache, create_input_hash(text)) # {},
                     created |-> RowIds(g.cache) \ RowIds(quote_cache),
                     ids |-> IF served THEN {g.result.quote.quote_id} ELSE {},
                     called |-> g.called,
                     result |-> g.result,
                     prev |-> Submission(last) ]
        /\ UNCHANGED <<now, share_stats, daily_stats>>

ShiftPerspective(user_input, outcome, fail_at, burn) ==
    \E r \in {shift_perspective(quote_cache, next_id, daily_stats, user_input,
                                  outcome, fail_at, burn, now)} :
        /\ Bounded(llm_calls + r.called)
        /\ \A i \in DOMAIN r.stats : r.stats[i].total_shifts <= MaxShifts
        /\ Len(r.stats) <= MaxShifts
        /\ quote_cache' = r.cache
        /\ next_id' = r.next_id
        /\ daily_stats' = r.stats
        /\ llm_calls' = llm_calls + r.called
        /\ last' = [ op |-> "shift", text |-> r.text,
                     served |-> r.status = "rendered",
                     status |-> r.status,
                     prior |-> RowsByHash(quote_cache, create_input_hash(r.text)) # {},
                     created |-> RowIds(r.cache) \ RowIds(quote_cache),
                     ids |-> {r.quotes[i].id : i \in 1..Len(r.quotes)},
                     called |-> r.called,
                     counted |-> r.stats # daily_stats,
                     prev |-> Submission(last) ]
        /\ UNCHANGED <<now, rl, share_stats>>

(***************************************************************************)
(* The daily counter specification: POST /shift requests handled one at a  *)
(* time while the clock moves into the next day.                           *)
(***************************************************************************)
DailyNext ==
    \/ Advance
    \/ \E i \in FormInputs, f \in FailurePoints :
          ShiftPerspective(i, Body(JObj([quotes |-> JList(<<Q_Good, Q_Padded>>)])),
                           f, FALSE)

SpecDaily == StoreInit /\ [][DailyNext]_vars

\* the rows of a date, and the table with one more shift counted on a date
RowsOfDate(stats, d) == {i \in 1..Len(stats) : stats[i].date = d}
Shifts(stats, d) ==
    IF RowsOfDate(stats, d) = {} THEN 0
    ELSE stats[CHOOSE i \in RowsOfDate(stats, d) : TRUE].total_shifts
Dates(stats) == {stats[i].date : i \in 1..Len(stats)}

\* C21: handling one POST /shift leaves at most one row per date; a request
\* that returned quotes adds exactly one to the count of its day and leaves
\* the other days alone; a request rejected for empty input, or one that
\* ended in the error redirect, leaves the table as it was
C21_DailyCounter ==
    [][ last'.op = "shift" =>
          /\ \A d \in Dates(daily_stats') : Cardinality(RowsOfDate(daily_stats', d)) = 1
          /\ IF last'.status = "rendered"
             THEN /\ Shifts(daily_stats', Today(now)) =
                         Shifts(daily_stats, Today(now)) + 1
                  /\ \A d \in Dates(daily_stats) \ {Today(now)} :
                         Shifts(daily_stats', d) = Shifts(daily_stats, d)
                  /\ Dates(daily_stats') = Dates(daily_stats) \cup {Today(now)}
             ELSE daily_stats' = daily_stats ]_vars

\* a request of the second day ended in the error redirect and was counted
C21_Witness ==
    /\ last.op = "shift"
    /\ last.status = "error"
    /\ last.counted
    /\ Len(daily_stats) = 2

\* the ids a client may ask for: composite ids of rows and indexes in and out
\* of range, and texts that are no composite id
MaxIndex == 3
Malformed ==
    { <<>>, <<"1">>, <<"1","_">>, <<"1","_","a">>, <<"_","0">>, <<"a","_","0">> }
QuoteIds ==
    {CompositeId(r, i) : r \in 0..MaxCalls, i \in 0..MaxIndex} \cup Malformed

GetCachedQuote(quote_id, read_ok) ==
    /\ last' = [ op |-> "get_cached_quote", quote_id |-> quote_id,
                 read_ok |-> read_ok,
                 result |-> get_cached_quote(quote_cache, quote_id, read_ok),
                 prev |-> IF last.op = "generate_quote" /\ last.served
                          THEN Some([prior |-> last.prior, created |-> last.created,
                                     quote |-> last.result.quote])
                          ELSE None ]
    /\ AllUnchanged

StoreNext ==
    \/ \E i \in FacadeInputs \ {JStr(In_to_be)}, st \in FacadeStyles, o \in StoreOutcomes,
          r \in BOOLEAN, w \in {"ok", "fail"} : GenerateQuote(i, st, o, r, w)
    \/ \E i \in FormInputs, o \in StoreOutcomes, f \in FailurePoints,
          b \in {FALSE} : ShiftPerspective(i, o, f, b)

SpecStore == StoreInit /\ [][StoreNext]_vars

\* the lookup specification: quotes are generated, with the store accepting
\* the row or not, and asked for again by id
LookupNext ==
    \/ \E i \in FacadeInputs, st \in FacadeStyles, o \in StoreOutcomes,
          w \in WriteModes : GenerateQuote(i, st, o, TRUE, w)
    \/ \E q \in QuoteIds, r \in BOOLEAN : GetCachedQuote(q, r)

SpecLookup == StoreInit /\ [][LookupNext]_vars

(***************************************************************************)
(* Claims about the quote cache.                                           *)
(***************************************************************************)
SameTexts(a, b) ==
    /\ a.quote = b.quote
    /\ a.attribution = b.attribution
    /\ a.perspective = b.perspective
    /\ a.context = b.context

\* the submission just served repeats the text of the one served right before
\* it, which found no cache entry, and its own cache lookup was answered
Second(l) ==
    /\ l.op \in {"generate_quote", "shift"}
    /\ l.served
    /\ l.op = "generate_quote" => l.read_ok
    /\ l.prev # None
    /\ l.prev[1].text = l.text
    /\ ~l.prev[1].prior

\* the two submissions created one row between them, and every id the second
\* returned is a composite id of the row the first created
ReusesFirstRow(l) ==
    /\ Cardinality(l.prev[1].created) + Cardinality(l.created) = 1
    /\ l.ids # {}
    /\ \E r \in l.prev[1].created :
           \A id \in l.ids : \E i \in 0..MaxIndex : id = CompositeId(r, i)

\* C4 as stated: whenever the same input text is submitted twice in sequence,
\* through POST /shift or generate_quote, exactly one cache row is created and
\* the second submission returns the composite id(s) of the row created by the
\* first.
C4_SecondReusesFirstRow == Second(last) => ReusesFirstRow(last)

Id_0_0 == <<"0", "_", "0">>

\* C4, amended: if the first submission persisted its row, the second creates
\* no row, makes no external call and returns composite ids of the first's
\* row; if generate_quote could not persist its row it returned the synthetic
\* id 0_0, and the second submission creates the row or returns 0_0 itself.
C4_SecondReusesPersistedRow ==
    Second(last) =>
        IF last.prev[1].created # {}
        THEN ReusesFirstRow(last) /\ last.called = 0
        ELSE /\ last.prev[1].ids = {Id_0_0}
             /\ last.called = 1
             /\ \/ Cardinality(last.created) = 1
                \/ last.ids = {Id_0_0}

C4_Witness ==
    /\ Second(last)
    /\ last.op = "generate_quote"
    /\ last.prev[1].created # {}
    /\ last.called = 0
    /\ quote_cache # <<>>

\* a get_cached_quote that asks for the id generate_quote has just returned
\* for an input without a prior cache entry, with the store answering
RoundTrip(l) ==
    /\ l.op = "get_cached_quote"
    /\ l.read_ok
    /\ l.prev # None
    /\ ~l.prev[1].prior
    /\ l.quote_id = l.prev[1].quote.quote_id

Retrieved(l) ==
    /\ \E r \in l.prev[1].created : l.quote_id = CompositeId(r, 0)
    /\ l.result.found
    /\ SameTexts(l.result.quote, l.prev[1].quote)

\* C5 as stated: whenever generate_quote returns a quote for an input with no
\* prior cache entry, its id is "{id of the new row}_0" and get_cached_quote
\* with that id returns a quote with the same four texts.
C5_GenerateThenRetrieve == RoundTrip(last) => Retrieved(last)

\* C5, amended: the round trip holds whenever the new row was persisted; when
\* it was not, the id is the synthetic 0_0 and get_cached_quote returns absent.
C5_PersistedThenRetrieve ==
    RoundTrip(last) =>
        IF last.prev[1].created # {}
        THEN Retrieved(last)
        ELSE last.quote_id = Id_0_0 /\ last.result = Absent

C5_Witness ==
    /\ RoundTrip(last)
    /\ last.prev[1].created # {}
    /\ last.result.found
    /\ last.result.quote.quote # <<>>

\* C6: get_cached_quote("{R}_{I}") returns exactly the quote stored at
\* position I of row R when 0 <= I < length, with the id asked for; it returns
\* absent when I is at or past the length, when the row is unknown, and when
\* the id has no underscore or no numeric index; it never raises.
C6_CompositeIdRetrieval ==
    last.op = "get_cached_quote" =>
        /\ last.result = Absent \/ last.result.found
        /\ \A r \in 0..MaxCalls, i \in 0..MaxIndex :
              (last.quote_id = CompositeId(r, i) /\ last.read_ok) =>
                  IF r \in DOMAIN quote_cache
                     /\ i < Len(json_loads(quote_cache[r].response_data))
                  THEN /\ last.result.found
                       /\ last.result.quote.quote_id = last.quote_id
                       /\ SameTexts(last.result.quote,
                                    json_loads(quote_cache[r].response_data)[i + 1])
                  ELSE last.result = Absent
        /\ last.quote_id \in Malformed => last.result = Absent

C6_Witness ==
    /\ last.op = "get_cached_quote"
    /\ last.result.found
    /\ \E r \in DOMAIN quote_cache : last.quote_id = CompositeId(r, 2)

Filled(q) ==
    /\ q.quote # <<>>
    /\ q.attribution # <<>>
    /\ q.perspective # <<>>
    /\ q.context # <<>>

\* C9 as stated: in every reachable state every cache row's stored array has
\* between 1 and 3 elements, each with the four fields as non-empty strings.
C9_RowsHoldFilledQuotes ==
    \A id \in DOMAIN quote_cache :
        LET stored == json_loads(quote_cache[id].response_data)
        IN  /\ Len(stored) \in 1..3
            /\ \A i \in 1..Len(stored) : Filled(stored[i])

(***************************************************************************)
(* The share specification: POST /track-share/<quote_id> over a store that *)
(* the facade fills.                                                       *)
(***************************************************************************)
MaxShares == 1

P_x == <<"x">>
P_linkedin == <<"l","i","n","k","e","d","i","n">>
P_native == <<"n","a","t","i","v","e">>
P_instagram == <<"i","n","s","t","a","g","r","a","m">>
P_facebook == <<"f","a","c","e","b","o","o","k">>

JsonBody(v) == [kind |-> "json", data |-> v]
NoJsonBody == [kind |-> "none"]

ShareBodies ==
    { JsonBody(JObj([platform |-> JStr(p)])) :
          p \in {P_x, P_linkedin, P_native, P_instagram, P_facebook, <<>>} }
    \cup { JsonBody(JObj([platform |-> JNull])),
           JsonBody(JObj(<<>>)),
           JsonBody(JList(<<JStr(P_x)>>)),
           NoJsonBody }

Id_1_0 == <<"1", "_", "0">>
Id_7_0 == <<"7", "_", "0">>
ShareIds == {Id_1_0, Id_7_0, <<"1">>, <<"a", "_", "0">>}

\* how the store takes the insert: it accepts it, it is down, or it accepts it
\* only if the row the entry points at exists
ShareStores == {"ok", "down", "fk"}

TrackShare(quote_id, body, store) ==
    \E r \in {track_share(quote_cache, share_stats, quote_id, body,
                          store # "down", store = "fk")} :
        /\ Len(r.shares) <= MaxShares
        /\ share_stats' = r.shares
        /\ last' = [ op |-> "track_share", quote_id |-> quote_id, body |-> body,
                     store |-> store, status |-> r.status,
                     added |-> Len(r.shares) - Len(share_stats) ]
        /\ UNCHANGED <<now, rl, quote_cache, next_id, daily_stats, llm_calls>>

ShareNext ==
    \/ \E o \in StoreOutcomes :
           GenerateQuote(JStr(In_padded), Style("practical"), o, TRUE, "ok")
    \/ \E q \in ShareIds, b \in ShareBodies, st \in ShareStores : TrackShare(q, b, st)

SpecShare == StoreInit /\ [][ShareNext]_vars

\* the platform the request names, if its body is a JSON object that names one
NamesPlatform(body, p) ==
    /\ body.kind = "json"
    /\ body.data.t = "obj"
    /\ "platform" \in DOMAIN body.data.fields
    /\ body.data.fields["platform"] = JStr(p)

PermittedPlatform(body) ==
    \E p \in {P_x, P_linkedin, P_native, P_instagram} : NamesPlatform(body, p)

\* a call for a composite id of a stored row, with the store accepting writes
ForStoredQuote(l) ==
    /\ l.op = "track_share"
    /\ l.store # "down"
    /\ \E r \in DOMAIN quote_cache, i \in 0..MaxIndex : l.quote_id = CompositeId(r, i)

\* C7 as stated, read for composite ids of stored rows and a store that
\* accepts writes: a call whose platform is one of x, linkedin, native,
\* instagram succeeds and creates exactly one entry; a call with any other
\* platform value, an absent platform or an absent body is rejected with a
\* 400-class status and creates no entry.
C7_PlatformDecidesOutcome ==
    ForStoredQuote(last) =>
        IF PermittedPlatform(last.body)
        THEN last.status = 200 /\ last.added = 1
        ELSE last.status \in 400..499 /\ last.added = 0

C7_Witness ==
    /\ ForStoredQuote(last)
    /\ PermittedPlatform(last.body)
    /\ last.status = 200
    /\ last.added = 1

\* the cache-row prefix of the id names a row of the quote cache
NamesCacheRow(cache, quote_id) ==
    /\ HasUnderscore(quote_id)
    /\ PyInt(SplitFirst(quote_id)[1]).ok
    /\ PyInt(SplitFirst(quote_id)[1]).value \in DOMAIN cache

\* C23: every row of share_stats carries the id of a row of quote_cache, and
\* a POST /track-share/<quoteId> whose prefix names no cache row, or is not
\* numeric, adds no row to share_stats
C23_SharesReferToCacheRows ==
    /\ \A i \in 1..Len(share_stats) : share_stats[i].quote_id \in DOMAIN quote_cache
    /\ (last.op = "track_share" /\ ~NamesCacheRow(quote_cache, last.quote_id)) =>
           last.added = 0

\* a share of the id 7_0 was recorded with status 200 while the cache holds
\* row 1 only, by a store that does not check the foreign key
C23_Witness ==
    /\ last.op = "track_share"
    /\ last.quote_id = Id_7_0
    /\ last.store = "ok"
    /\ last.status = 200
    /\ last.added = 1
    /\ DOMAIN quote_cache = {1}
    /\ share_stats[Len(share_stats)].quote_id = 7

(***************************************************************************)
(* The budget specification: the MCP tool generate_wisdom_quote over the   *)
(* module's limiter, built with a daily budget of 0.0001 USD, while time   *)
(* passes.                                                                 *)
(***************************************************************************)
TightBudget == 10000

McpParameters ==
    { [user_input |-> JStr(In_padded)],
      [user_input |-> JStr(In_to_be), style |-> Style("practical")],
      [user_input |-> JStr(In_ab)],
      [style |-> Style("practical")] }

BudgetOutcomes ==
    {[kind |-> "raise"], Body(JObj([quotes |-> JList(<<Q_Good, Q_Padded>>)]))}

BudgetInit ==
    /\ now \in StartInstants
    /\ rl = NewLimiter(TightBudget, DefaultMaxQuotesPerIpHour, now)
    /\ DbInit
    /\ last = [op |-> "init"]

\* the budget is spent and the daily reset is not yet due
BudgetSpent(self, t) ==
    /\ self.daily_cost_usd >= self.daily_budget_usd
    /\ t < self.global_daily_reset + SecondsPerDay

McpGenerateWisdomQuote(parameters, outcome, read_ok, write) ==
    \E r \in {handle_generate_wisdom_quote(quote_cache, next_id, rl, parameters,
                  outcome, read_ok, write = "ok", write = "fail_burn", now)} :
        /\ Bounded(llm_calls + r.called)
        /\ Tracked(r.rl) <= MaxTracked
        /\ quote_cache' = r.cache
        /\ next_id' = r.next_id
        /\ rl' = r.rl
        /\ llm_calls' = llm_calls + r.called
        /\ last' = [ op |-> "generate_wisdom_quote", parameters |-> parameters,
                     response |-> r.response, called |-> r.called, hit |-> r.hit,
                     budget_spent |-> BudgetSpent(rl, now) ]
        /\ UNCHANGED <<now, share_stats, daily_stats>>

BudgetNext ==
    \/ Tick
    \/ \E p \in McpParameters, o \in BudgetOutcomes :
           McpGenerateWisdomQuote(p, o, TRUE, "ok")
    \/ CheckQuota(McpClientIp, UA_Claude)

SpecBudget == BudgetInit /\ [][BudgetNext]_vars

\* C1 as stated: once the limiter's accumulated daily cost has reached the
\* daily budget, no generate_wisdom_quote call makes an external generation
\* call until the next daily reset.
C1_NoCallOnceBudgetSpent ==
    (last.op = "generate_wisdom_quote" /\ last.budget_spent) => last.called = 0

C1_Witness ==
    /\ last.op = "generate_wisdom_quote"
    /\ last.budget_spent
    /\ last.called = 1
    /\ rl.daily_cost_usd > rl.daily_budget_usd

(***************************************************************************)
(* The facade specification: two services over one store, one built with   *)
(* the limiter and one without, called with and without cost tracking.     *)
(***************************************************************************)
ImportError == [kind |-> "import_error"]

FacadeOutcomes ==
    {Body(JObj([quotes |-> JList(<<Q_Good, Q_Padded>>)])), ImportError}

FacadeGenerateQuote(with_limiter, input_text, style, client_ip, track_cost, outcome, read_ok, write) ==
    \E g \in {generate_quote(with_limiter, quote_cache, next_id, rl, input_text,
                               style, client_ip, track_cost, outcome, read_ok,
                               write = "ok", write = "fail_burn", now)} :
        /\ Bounded(llm_calls + g.called)
        /\ quote_cache' = g.cache
        /\ next_id' = g.next_id
        /\ rl' = g.rl
        /\ llm_calls' = llm_calls + g.called
        /\ last' = [ op |-> "facade_generate_quote",
                     with_limiter |-> with_limiter,
                     track_cost |-> track_cost,
                     ip |-> client_ip,
                     request |-> QuoteRequest(input_text, style),
                     hit |-> g.hit,
                     import_failed |-> outcome = ImportError,
                     generated |-> IF g.called = 1
                                   THEN Some(get_wisdom_quotes(outcome)[1])
                                   ELSE None,
                     created |-> RowIds(g.cache) # RowIds(quote_cache),
                     result |-> g.result ]
        /\ UNCHANGED <<now, share_stats, daily_stats>>

\* WisdomService(rate_limiter) called for two clients, and WisdomService()
\* called with the default client
FacadeNext ==
    \/ \E i \in {JStr(In_padded), JStr(In_ab)}, st \in FacadeStyles,
          ip \in ClientIps, tc \in BOOLEAN, o \in FacadeOutcomes, w \in {"ok", "fail"} :
           FacadeGenerateQuote(TRUE, i, st, ip, tc, o, TRUE, w)
    \/ \E i \in {JStr(In_padded), JStr(In_ab)}, st \in FacadeStyles,
          tc \in BOOLEAN, o \in FacadeOutcomes, w \in {"ok", "fail"} :
           FacadeGenerateQuote(FALSE, i, st, McpClientIp, tc, o, TRUE, w)

SpecFacade == StoreInit /\ [][FacadeNext]_vars

\* the call was a cache miss whose generation succeeded
GeneratedOnMiss(l) ==
    /\ l.op = "facade_generate_quote"
    /\ l.request.ok
    /\ ~l.hit
    /\ l.result.outcome = "returned"

\* C19: one generate_quote call records exactly one request (the daily and
\* the hourly count each grow by 1, the caller's queue by one timestamp) when
\* it is a cache miss whose generation succeeded, a limiter was supplied and
\* track_cost is true; on a cache hit, on a validation failure, when
\* track_cost is false or when no limiter was supplied the limiter is unchanged.
C19_RecordsOncePerGeneration ==
    [][last'.op = "facade_generate_quote" =>
        LET l == last'
            h == hash_ip(l.ip)
            old == IF h \in DOMAIN rl.ip_requests THEN rl.ip_requests[h] ELSE <<>>
        IN  IF GeneratedOnMiss(l) /\ l.with_limiter /\ l.track_cost
            THEN /\ rl'.global_daily_count = rl.global_daily_count + 1
                 /\ rl'.global_hourly_count = rl.global_hourly_count + 1
                 /\ rl'.ip_requests[h] = Append(old, now)
                 /\ \A k \in DOMAIN rl.ip_requests \ {h} :
                        rl'.ip_requests[k] = rl.ip_requests[k]
                 /\ rl'.daily_cost_usd > rl.daily_cost_usd
            ELSE rl' = rl
    ]_vars

\* a second recorded generation for the same caller
C19_Witness ==
    /\ GeneratedOnMiss(last)
    /\ last.with_limiter
    /\ last.track_cost
    /\ rl.global_daily_count = 2
    /\ rl.global_hourly_count = 2
    /\ Len(rl.ip_requests[hash_ip(last.ip)]) = 2

Racers == {1, 2}
RaceRoutes == {"shift", "facade"}
RaceInput == In_abc

RaceOutcomes ==
    { Body(JObj([quotes |-> JList(<<Q_Good, Q_Padded>>)])),
      Body(JObj([quotes |-> JList(<<Q_Padded, Q_Good>>)])) }

Running(route) ==
    [route |-> route, pc |-> "lookup", quotes |-> <<>>, handed |-> {}, status |-> "running"]

\* what a caller is handed: the composite id and the quote shown under it
Handed(id, quote) == [id |-> id, quote |-> quote]
HandedAll(quotes_data, cache_id) ==
    {Handed(CompositeId(cache_id, i - 1), quotes_data[i]) : i \in 1..Len(quotes_data)}

RaceInit ==
    /\ DbIdle
    /\ \E routes \in [Racers -> RaceRoutes] :
           last = [op |-> "race", proc |-> [p \in Racers |-> Running(routes[p])]]

\* QuoteCache.query.filter_by(input_hash=input_hash).first() and, on a hit,
\* the rest of the request
RaceLookup(p) ==
    LET me == last.proc[p]
        h == create_input_hash(RaceInput)
        hit == RowsByHash(quote_cache, h) # {}
        id == FirstByHash(quote_cache, h)
        quotes_data == json_loads(quote_cache[id].response_data)
    IN  /\ me.pc = "lookup"
        /\ IF ~hit
           THEN /\ last' = [last EXCEPT !.proc[p].pc = "generate"]
                /\ UNCHANGED daily_stats
           ELSE IF me.route = "shift"
           THEN /\ last' = [last EXCEPT !.proc[p].pc = "done",
                                        !.proc[p].status = "rendered",
                                        !.proc[p].handed = HandedAll(quotes_data, id)]
                /\ daily_stats' = update_daily_stats(daily_stats, now)
           ELSE /\ last' = [last EXCEPT !.proc[p].pc = "done",
                                        !.proc[p].status = "returned",
                                        !.proc[p].handed =
                                            {Handed(CompositeId(id, 0), quotes_data[1])}]
                /\ UNCHANGED daily_stats
        /\ UNCHANGED <<now, rl, quote_cache, next_id, share_stats, llm_calls>>

\* get_wisdom_quotes(user_input)
RaceGenerate(p, outcome) ==
    /\ last.proc[p].pc = "generate"
    /\ Bounded(llm_calls + 1)
    /\ llm_calls' = llm_calls + 1
    /\ last' = [last EXCEPT !.proc[p].pc = "store",
                            !.proc[p].quotes = get_wisdom_quotes(outcome)]
    /\ UNCHANGED <<now, rl, quote_cache, next_id, share_stats, daily_stats>>

\* db.session.add(quote_cache); db.session.commit() and the rest of the
\* request: POST /shift ends in the error redirect when the commit raises,
\* _store_quotes_in_cache returns 0
RaceStore(p) ==
    LET me == last.proc[p]
        h == create_input_hash(RaceInput)
        stored == CanInsert(quote_cache, h, TRUE)
        id == store_quotes_in_cache_id(stored, next_id)
    IN  /\ me.pc = "store"
        /\ quote_cache' = IF stored
                          THEN Inserted(quote_cache, next_id,
                                        NewRow(h, RaceInput, me.quotes))
                          ELSE quote_cache
        /\ next_id' = IF stored THEN next_id + 1 ELSE next_id
        /\ IF me.route = "facade"
           THEN /\ last' = [last EXCEPT !.proc[p].pc = "done",
                                        !.proc[p].status = "returned",
                                        !.proc[p].handed =
                                            {Handed(CompositeId(id, 0), me.quotes[1])}]
                /\ UNCHANGED daily_stats
           ELSE IF stored
           THEN /\ last' = [last EXCEPT !.proc[p].pc = "done",
                                        !.proc[p].status = "rendered",
                                        !.proc[p].handed = HandedAll(me.quotes, next_id)]
                /\ daily_stats' = update_daily_stats(daily_stats, now)
           ELSE /\ last' = [last EXCEPT !.proc[p].pc = "done",
                                        !.proc[p].status = "error"]
                /\ UNCHANGED daily_stats
        /\ UNCHANGED <<now, rl, share_stats, llm_calls>>

RaceNext ==
    \/ \E p \in Racers : RaceLookup(p)
    \/ \E p \in Racers, o \in RaceOutcomes : RaceGenerate(p, o)
    \/ \E p \in Racers : RaceStore(p)

SpecRace == RaceInit /\ [][RaceNext]_vars

BothDone == \A p \in Racers : last.proc[p].pc = "done"
BothGenerated == \A p \in Racers : last.proc[p].quotes # <<>>

\* the id resolves through get_cached_quote to the quote shown under it
Resolves(cache, x) ==
    LET found == get_cached_quote(cache, x.id, TRUE)
    IN  found.found /\ SameTexts(found.quote, x.quote)

\* C27: when two concurrent generation requests with the same input, not
\* cached before, have both ended, the cache holds at most one row with the
\* hash of that input, and every composite id handed to a caller resolves
\* through get_cached_quote to the quote that caller was shown
C27_ConcurrentSameInput ==
    BothDone =>
        /\ Cardinality(RowsByHash(quote_cache, create_input_hash(RaceInput))) <= 1
        /\ \A p \in Racers : \A x \in last.proc[p].handed :
               Resolves(quote_cache, x)

\* both requests missed the cache and called the service; one row was
\* stored, and the facade request whose insert was refused handed out the
\* id 0_0, which names no row
C27_Witness ==
    /\ BothDone
    /\ BothGenerated
    /\ Cardinality(RowsByHash(quote_cache, create_input_hash(RaceInput))) = 1
    /\ \E p \in Racers :
           /\ last.proc[p].route = "facade"
           /\ \E x \in last.proc[p].handed :
                  x.id = Id_0_0 /\ ~get_cached_quote(quote_cache, x.id, TRUE).found

(***************************************************************************)
(* The MCP specification: tools are executed directly and through the      *)
(* JSON-RPC server, over one store and the module's limiter.               *)
(***************************************************************************)
ToolCalls ==
    { <<Style("generate_wisdom_quote"), JObj([user_input |-> JStr(In_padded)])>>,
      <<Style("generate_wisdom_quote"), JObj([user_input |-> JStr(In_ab)])>>,
      <<Style("generate_wisdom_quote"), JObj([style |-> Style("practical")])>>,
      <<Style("generate_wisdom_quote"), JObj([user_input |-> JNum(5)])>>,
      <<Style("generate_wisdom_quote"), JList(<<>>)>>,
      <<Style("create_quote_image"), JObj([quote_id |-> JStr(Id_1_0)])>>,
      <<Style("create_quote_image"),
        JObj([quote_id |-> JStr(Id_1_0), design |-> JNum(9)])>>,
      <<Style("create_quote_image"), JObj([quote_id |-> JStr(Id_7_0)])>>,
      <<Style("create_quote_image"), JNull>>,
      <<Style("get_wisdom_quote"), JObj([quote_id |-> JStr(Id_1_0)])>>,
      <<Style("get_wisdom_quote"), JObj([quote_id |-> JStr(Id_0_0)])>>,
      <<Style("get_wisdom_quote"), JObj([quote_id |-> JNum(1)])>>,
      <<Style("get_wisdom_quote"), JObj([design |-> JNum(1)])>>,
      <<Style("get_system_status"), JNull>>,
      <<Style("get_system_status"), JObj([verbose |-> JNull])>>,
      <<Style("delete_quotes"), JObj([quote_id |-> JStr(Id_1_0)])>>,
      <<JNull, JNull>>,
      <<JNum(7), JList(<<>>)>> }

ServedCalls ==
    { <<Style("generate_wisdom_quote"), JObj([user_input |-> JStr(In_padded)])>>,
      <<Style("get_wisdom_quote"), JObj([quote_id |-> JStr(Id_1_0)])>>,
      <<Style("get_wisdom_quote"), JList(<<>>)>>,
      <<Style("delete_quotes"), JObj([quote_id |-> JStr(Id_1_0)])>> }

Requests ==
    { JObj([method |-> Style("initialize"), id |-> JNum(1)]),
      JObj([method |-> Style("tools/list"), id |-> JNum(2)]),
      JObj([method |-> Style("tools/list")]),
      JObj([method |-> Style("resources/list"), id |-> Style("abc")]),
      JObj([method |-> JNum(5), id |-> JNum(3)]),
      JObj([id |-> JNum(3)]),
      JObj([method |-> Style("tools/call"), id |-> JNum(4)]),
      JObj([method |-> Style("tools/call"), id |-> JNum(5), params |-> JNull]),
      JObj([method |-> Style("tools/call"), id |-> JNum(6),
            params |-> JList(<<>>)]),
      JList(<<>>), JNull, Style("ping"), JNum(1) }
    \cup { JObj([method |-> Style("tools/call"), id |-> JNum(7),
                 params |-> JObj([name |-> c[1], arguments |-> c[2]])]) :
               c \in ServedCalls }

McpOutcomes == FacadeOutcomes

ExecuteMcpTool(tool_name, parameters, outcome) ==
    \E r \in {execute_tool(tool_name, parameters, quote_cache, next_id, rl,
                            outcome, TRUE, TRUE, FALSE, now)} :
        /\ Bounded(llm_calls + r.called)
        /\ quote_cache' = r.cache
        /\ next_id' = r.next_id
        /\ rl' = r.rl
        /\ llm_calls' = llm_calls + r.called
        /\ last' = [ op |-> "execute_mcp_tool", tool_name |-> tool_name,
                     parameters |-> parameters,
                     import_failed |-> outcome = ImportError,
                     result |-> Answered(r.response) ]
        /\ UNCHANGED <<now, share_stats, daily_stats>>

HandleRequest(request, outcome) ==
    \E r \in {handle_request(request, quote_cache, next_id, rl, outcome, TRUE,
                              TRUE, FALSE, now)} :
        /\ Bounded(llm_calls + r.called)
        /\ quote_cache' = r.cache
        /\ next_id' = r.next_id
        /\ rl' = r.rl
        /\ llm_calls' = llm_calls + r.called
        /\ last' = [ op |-> "handle_request", request |-> request,
                     result |-> r.result ]
        /\ UNCHANGED <<now, share_stats, daily_stats>>

McpNext ==
    \/ Advance
    \/ \E c \in ToolCalls, o \in McpOutcomes : ExecuteMcpTool(c[1], c[2], o)
    \/ \E q \in Requests, o \in McpOutcomes : HandleRequest(q, o)

SpecMcp == StoreInit /\ [][McpNext]_vars

IsObject(v) == v.t = "obj"
Field(v, key) == GetOr(v.fields, key, JNull)
Method(v) == IF Field(v, "method").t = "name" THEN Field(v, "method").name ELSE ""

\* the response is a JSON-RPC 2.0 message carrying the request's own id
Replies(l) ==
    /\ l.result.outcome = "returned"
    /\ l.result.response.jsonrpc = "2.0"
    /\ l.result.response.id = Field(l.request, "id")

HasResult(l) == "result" \in DOMAIN l.result.response
HasError(l, code) ==
    /\ "error" \in DOMAIN l.result.response
    /\ l.result.response.error.code = code

\* the dispatch of the request raises: a tools/call whose params is no object
DispatchRaises(v) ==
    /\ Method(v) = "tools/call"
    /\ "params" \in DOMAIN v.fields
    /\ ~IsObject(v.fields["params"])

\* C11 as stated: handle_request never raises; every request is answered
\* with a jsonrpc "2.0" response carrying the request's own id: a result for
\* initialize, tools/list and tools/call, an error with code -32601 for any
\* other method, an error with code -32603 carrying the exception's message
\* when the dispatch raised.
C11_EveryRequestAnswered ==
    last.op = "handle_request" =>
        /\ last.result.outcome = "returned"
        /\ IsObject(last.request) =>
               /\ Replies(last)
               /\ IF DispatchRaises(last.request)
                  THEN /\ HasError(last, -32603)
                       /\ last.result.response.error.message =
                              <<"Internal error: ", NoAttribute("get")>>
                  ELSE IF Method(last.request) \in
                              {"initialize", "tools/list", "tools/call"}
                  THEN HasResult(last)
                  ELSE HasError(last, -32601)

\* a tools/call whose params is an array was answered with code -32603 and
\* the request's id
C11_Witness ==
    /\ last.op = "handle_request"
    /\ IsObject(last.request)
    /\ DispatchRaises(last.request)
    /\ Replies(last)
    /\ HasError(last, -32603)
    /\ last.result.response.id = JNum(6)

ErrorShaped(response) ==
    /\ Head(response.text) = "Error: "
    /\ "error" \in DOMAIN response.metadata
    /\ response.metadata.error = TRUE

ToolOf(l) == IF l.tool_name.t = "name" THEN l.tool_name.name ELSE ""

\* the quote id a retrieval tool was given, if it was given a usable one
GivenQuoteId(l) ==
    IF IsObject(l.parameters) /\ Field(l.parameters, "quote_id").t = "str"
    THEN Strip(Field(l.parameters, "quote_id").s)
    ELSE <<>>

GivenDesign(l) == GetOr(l.parameters.fields, "design", JNum(3))

\* the call is one of the failures of the tools, read off its arguments and
\* the store before the call
ToolFails(l, cache) ==
    \/ ToolOf(l) \notin ToolNames
    \/ /\ ToolOf(l) # "get_system_status"
       /\ ~IsObject(l.parameters)
    \/ /\ ToolOf(l) = "generate_wisdom_quote"
       /\ IsObject(l.parameters)
       /\ LET text == Field(l.parameters, "user_input")
          IN  \/ text.t # "str"
              \/ Len(Strip(text.s)) < 3
              \/ Len(Strip(text.s)) > 500
              \/ /\ l.import_failed
                 /\ RowsByHash(cache, create_input_hash(Strip(text.s))) = {}
    \/ /\ ToolOf(l) \in {"create_quote_image", "get_wisdom_quote"}
       /\ IsObject(l.parameters)
       /\ \/ GivenQuoteId(l) = <<>>
          \/ ~get_cached_quote(cache, GivenQuoteId(l), TRUE).found
          \/ /\ ToolOf(l) = "create_quote_image"
             /\ \/ GivenDesign(l).t # "num"
                \/ GivenDesign(l).n \notin 1..4

\* C16: execute_mcp_tool never raises, for any tool name and any arguments
\* value: it returns an object of shape {type: "text", text, metadata}, and
\* every failure (validation failure, quote not found, unknown tool, service
\* error, unexpected exception) is a text beginning with "Error: " together
\* with metadata.error = true; a call that is none of these is no error.
C16_ToolsAnswerInShape ==
    [][last'.op = "execute_mcp_tool" =>
        LET l == last'
            response == l.result.response
        IN  /\ l.result.outcome = "returned"
            /\ DOMAIN response = {"type", "text", "metadata"}
            /\ response.type = "text"
            /\ ErrorShaped(response) <=> ToolFails(l, quote_cache)
    ]_vars

\* a tool name that is no string, called with an array for its arguments
C16_Witness ==
    /\ last.op = "execute_mcp_tool"
    /\ last.tool_name = JNum(7)
    /\ ~IsObject(last.parameters)
    /\ last.result.outcome = "returned"
    /\ ErrorShaped(last.result.response)

\* a tools/call request whose dispatch reached the tool
ToolCalled(l) ==
    /\ l.op = "handle_request"
    /\ IsObject(l.request)
    /\ Method(l.request) = "tools/call"
    /\ l.result.outcome = "returned"
    /\ HasResult(l)

\* C29: for every tools/call request the isError flag of the JSON-RPC result
\* is true exactly when the tool result it wraps is a failure, a text
\* beginning with "Error: " with metadata.error = true (validation failures,
\* quote not found and an unknown tool included), and false exactly when the
\* tool succeeded
C29_IsErrorFollowsToolResult ==
    ToolCalled(last) =>
        LET result == last.result.response.result
        IN  /\ Len(result.content) = 1
            /\ result.isError <=> ErrorShaped(result.content[1])

\* a call of the unknown tool delete_quotes was answered with an error text
\* wrapped in a result whose isError is false
C29_Witness ==
    /\ ToolCalled(last)
    /\ IsObject(Field(last.request, "params"))
    /\ Field(Field(last.request, "params"), "name") = Style("delete_quotes")
    /\ ErrorShaped(last.result.response.result.content[1])
    /\ ~last.result.response.result.isError

(***************************************************************************)
(* The validation specification: one input text is drawn and handed to     *)
(* QuoteRequest and to the parameter checks of the MCP tool.               *)
(***************************************************************************)
MaxPad == 1
CoreLengths == {0, 1, 2, 3, 4, 499, 500, 501, 502}

\* a text of n characters that neither starts nor ends with white space
Core(n, spaced) ==
    IF spaced /\ n >= 3 THEN <<"a", " ">> \o Rep("a", n - 2) ELSE Rep("a", n)

Padded(lead, n, spaced, trail) == Rep(" ", lead) \o Core(n, spaced) \o Rep(" ", trail)

ValidateInit ==
    /\ DbIdle
    /\ \/ \E n \in CoreLengths, lead \in 0..MaxPad, trail \in 0..MaxPad,
             spaced \in BOOLEAN :
              last = [ op |-> "input", core |-> n,
                       value |-> JStr(Padded(lead, n, spaced, trail)) ]
       \/ \E v \in {JNull, JNum(7)} : last = [op |-> "input", core |-> 0, value |-> v]

ValidateQuoteRequest ==
    /\ last.op = "input"
    /\ last' = [ op |-> "QuoteRequest", core |-> last.core, value |-> last.value,
                 result |-> QuoteRequest(last.value, JNull) ]
    /\ AllUnchanged

ValidateToolParameters ==
    /\ last.op = "input"
    /\ last' = [ op |-> "generate_wisdom_quote", core |-> last.core,
                 value |-> last.value,
                 result |-> mcp_validate_generate([user_input |-> last.value]) ]
    /\ AllUnchanged

ValidateNext == ValidateQuoteRequest \/ ValidateToolParameters

SpecValidate == ValidateInit /\ [][ValidateNext]_vars

TooShort(op) ==
    IF op = "QuoteRequest" THEN "Input too short (minimum 3 characters)"
    ELSE "user_input must be at least 3 characters"

TooLong(op) ==
    IF op = "QuoteRequest" THEN "Input too long (maximum 500 characters)"
    ELSE "user_input must be 500 characters or less"

AcceptedText(l) ==
    IF l.op = "QuoteRequest" THEN l.result.input ELSE l.result.value.user_input

\* C10: for QuoteRequest and for the MCP tool alike, a text whose trimmed
\* length is 2 is rejected as too short, 3 and 500 are accepted, 501 is
\* rejected as too long, and a text is accepted exactly when its trimmed
\* length lies in 3..500; what is accepted is the trimmed text.
C10_ValidationBoundaries ==
    (last.op \in {"QuoteRequest", "generate_wisdom_quote"} /\ last.value.t = "str") =>
        /\ last.result.ok <=> last.core \in 3..500
        /\ last.core = 2 => last.result.error = TooShort(last.op)
        /\ last.core = 501 => last.result.error = TooLong(last.op)
        /\ last.result.ok => Len(AcceptedText(last)) = last.core

C10_Witness ==
    /\ last.op = "generate_wisdom_quote"
    /\ last.core = 500
    /\ Len(last.value.s) = 502
    /\ last.result.ok

(***************************************************************************)
(* The HTTP endpoint POST /api/v1/quotes (api/v1/quotes.py).               *)
(*                                                                         *)
(* What the handler sends is the sequence of its writes to the connection: *)
(* status lines, headers, the ends of header blocks and bodies, in order.  *)
(* A request body is [kind |-> "invalid"] (no JSON) or                     *)
(* [kind |-> "json", data |-> value].                                      *)
(***************************************************************************)
StatusLine(code) == [w |-> "status", code |-> code]
Header(name, value) == [w |-> "header", name |-> name, value |-> value]
EndHeaders == [w |-> "end_headers"]
Payload(data) == [w |-> "body", data |-> data]

\* handler.send_error_response
send_error_response(status_code, message) ==
    << StatusLine(status_code),
       Header("Access-Control-Allow-Origin", "*"),
       Header("Content-Type", "application/json"),
       EndHeaders,
       Payload([error |-> [ code |-> "API_ERROR", message |-> message,
                            timestamp |-> "utcnow" ]]) >>

\* lines 18-23 of do_POST: the status line and the CORS headers, sent before
\* the request body is read
cors_preamble ==
    << StatusLine(200),
       Header("Access-Control-Allow-Origin", "*"),
       Header("Access-Control-Allow-Methods", "POST, OPTIONS"),
       Header("Access-Control-Allow-Headers", "Content-Type"),
       Header("Content-Type", "application/json"),
       EndHeaders >>

\* handler.do_POST: everything it writes for one request
do_POST(body) ==
    cors_preamble \o
    ( IF body.kind = "invalid" THEN send_error_response(400, <<"Invalid JSON">>)
      ELSE IF body.data.t # "obj"
      THEN send_error_response(500, <<"Internal server error: ", NoAttribute("get")>>)
      ELSE LET raw == GetOr(body.data.fields, "input", JStr(<<>>))
           IN  IF raw.t # "str"
               THEN send_error_response(500,
                        <<"Internal server error: ", NoAttribute("strip")>>)
               ELSE LET user_input == Strip(raw.s)
                        style == GetOr(body.data.fields, "style",
                                       Style("inspirational"))
                    IN  IF user_input = <<>> \/ Len(user_input) < MinInputLength
                        THEN send_error_response(400,
                                 <<"Input too short (minimum 3 characters)">>)
                        ELSE IF Len(user_input) > MaxInputLength
                        THEN send_error_response(400,
                                 <<"Input too long (maximum 500 characters)">>)
                        ELSE << Payload(
                                 [ quote_id |-> <<"api_", "timestamp">>,
                                   quote |-> <<"Every challenge in '", user_input,
                                               "' is an opportunity for growth.">>,
                                   attribution |-> "API Test Response",
                                   perspective |-> <<"A ", style,
                                                     " perspective on your situation">>,
                                   context |-> <<"Generated for: ", user_input>>,
                                   metadata |-> [ style |-> style,
                                                  processing_time_ms |-> 150,
                                                  source |-> "api_fallback" ] ]) >> )

\* the status of the HTTP response: that of the first status line on the wire
HttpStatus(wire) == Head(wire).code

(***************************************************************************)
(* The endpoint specification: one input text is drawn and posted as the   *)
(* input of a JSON object, inside a JSON array, or in a body that is no    *)
(* JSON.                                                                   *)
(***************************************************************************)
BodyForms == {"object", "array", "invalid"}

PostBody(form, value) ==
    IF form = "invalid" THEN [kind |-> "invalid"]
    ELSE IF form = "array" THEN [kind |-> "json", data |-> JList(<<value>>)]
    ELSE [kind |-> "json", data |-> JObj([input |-> value])]

DoPost(form) ==
    /\ last.op = "input"
    /\ last' = [ op |-> "do_POST", form |-> form, core |-> last.core,
                 value |-> last.value,
                 wire |-> do_POST(PostBody(form, last.value)) ]
    /\ AllUnchanged

HttpNext == \E form \in BodyForms : DoPost(form)

SpecHttp == ValidateInit /\ [][HttpNext]_vars

\* the request is one the claim speaks of: malformed JSON, or an input whose
\* trimmed length is below 3 or above 500
BadQuoteRequest(l) ==
    /\ l.op = "do_POST"
    /\ \/ l.form = "invalid"
       \/ /\ l.form = "object"
          /\ l.value.t = "str"
          /\ l.core \notin 3..500

ErrorBody(item) ==
    /\ item.w = "body"
    /\ DOMAIN item.data = {"error"}
    /\ DOMAIN item.data.error = {"code", "message", "timestamp"}

\* C13 as stated: a request whose body is malformed JSON, or whose input is
\* shorter than 3 or longer than 500 characters after trimming, gets an HTTP
\* response of status 400 with a body {error: {code, message, timestamp}}, and
\* no 200 status is written for it.
C13_BadRequestGets400 ==
    BadQuoteRequest(last) =>
        /\ HttpStatus(last.wire) = 400
        /\ ErrorBody(last.wire[Len(last.wire)])
        /\ \A i \in 1..Len(last.wire) :
               last.wire[i].w = "status" => last.wire[i].code # 200

\* an input of two characters: the 400 status line and the error body are
\* written, after the 200 status line and its headers
C13_Witness ==
    /\ BadQuoteRequest(last)
    /\ last.form = "object"
    /\ last.core = 2
    /\ HttpStatus(last.wire) = 200
    /\ \E i \in 2..Len(last.wire) : last.wire[i] = StatusLine(400)
    /\ ErrorBody(last.wire[Len(last.wire)])
(***************************************************************************)
(* The production migration script                                         *)
(* (scripts/maintenance/migrate_production.py).                            *)
(*                                                                         *)
(* One run of main: DATABASE_URL is None (unset) or Some(text); the        *)
(* operator's answer to the prompt is Some(line), or None when standard    *)
(* input is at its end; the database either has the share_stats table or   *)
(* not, and the migration ends well, fails, or cannot import the           *)
(* application.                                                            *)
(***************************************************************************)
StartsWith(text, prefix) ==
    Len(text) >= Len(prefix) /\ SubSeq(text, 1, Len(prefix)) = prefix

Text_sqlite == <<"s","q","l","i","t","e">>
Text_postgres == <<"p","o","s","t","g","r","e","s">>
Text_yes == <<"y","e","s">>

\* get_database_info: the detected kind, None when nothing is configured
get_database_info(database_url) ==
    IF database_url = None \/ database_url = Some(<<>>) THEN None
    ELSE IF StartsWith(database_url[1], Text_sqlite) THEN Some("local")
    ELSE IF Contains(database_url[1], Text_postgres) THEN Some("production")
    ELSE Some("unknown")

\* confirm_production_migration: response.lower() == "yes"
confirm_production_migration(response) == Lower(response) = Text_yes

\* run_production_migration: what it does to the schema and whether it
\* reports success; a failed import of the application leaves the script
\* with an uncaught exception
run_production_migration(table_exists, ending) ==
    IF ending = "import_error"
    THEN [schema |-> "untouched", success |-> FALSE, uncaught |-> TRUE]
    ELSE [ schema |-> IF table_exists THEN "inspected" ELSE "created",
           success |-> ending = "ok", uncaught |-> FALSE ]

Exit(code, prompted, schema) ==
    [exit_code |-> code, prompted |-> prompted, schema |-> schema]

\* main: the exit code of the process, whether the operator was asked, and
\* what happened to the schema.  An uncaught exception ends the interpreter
\* with exit code 1.
main(database_url, answer, table_exists, ending) ==
    LET db_type == get_database_info(database_url)
        asked == db_type = Some("production")
        run == run_production_migration(table_exists, ending)
    IN  IF db_type = None THEN Exit(1, FALSE, "untouched")
        ELSE IF asked /\ answer = None THEN Exit(1, TRUE, "untouched")
        ELSE IF asked /\ ~confirm_production_migration(answer[1])
        THEN Exit(0, TRUE, "untouched")
        ELSE IF run.success THEN Exit(0, asked, run.schema)
        ELSE Exit(1, asked, run.schema)

DatabaseUrls ==
    { None, Some(<<>>),
      Some(<<"s","q","l","i","t","e",":","/","/","/","a","p","p",".","d","b">>),
      Some(<<"p","o","s","t","g","r","e","s","q","l",":","/","/","d","b","/","a","p","p">>),
      Some(<<"p","o","s","t","g","r","e","s",":","/","/","d","b","/","a","p","p">>),
      Some(<<"m","y","s","q","l",":","/","/","d","b","/","a","p","p">>),
      Some(<<"S","Q","L","I","T","E",":","/","/","/","a","p","p",".","d","b">>) }

Answers ==
    { None, Some(Text_yes), Some(<<"Y","E","S">>), Some(<<"y">>), Some(<<"n","o">>),
      Some(<<>>), Some(<<" ","y","e","s">>) }

Endings == {"ok", "failed", "import_error"}

RunMigration(database_url, answer, table_exists, ending) ==
    /\ last' = [ op |-> "migrate_production", database_url |-> database_url,
                 answer |-> answer, table_exists |-> table_exists,
                 ending |-> ending,
                 result |-> main(database_url, answer, table_exists, ending) ]
    /\ AllUnchanged

MigrateNext ==
    \E u \in DatabaseUrls, a \in Answers, e \in BOOLEAN, f \in Endings :
        RunMigration(u, a, e, f)

SpecMigrate == StoreInit /\ [][MigrateNext]_vars

Migrated == last.op = "migrate_production"

Configured == last.database_url # None /\ last.database_url # Some(<<>>)

LooksLikeSqlite == Configured /\ StartsWith(last.database_url[1], Text_sqlite)

\* the operator was asked and typed "yes", in any case of the letters
TypedYes ==
    /\ last.result.prompted
    /\ last.answer # None
    /\ Lower(last.answer[1]) = Text_yes

\* the operator was asked and answered something else
Declined == last.result.prompted /\ last.answer # None /\ ~TypedYes

\* the migration ran to its end and reported success
Succeeded ==
    /\ Configured
    /\ last.result.schema # "untouched"
    /\ last.ending = "ok"

\* C14 as stated: the script exits with code 0 only when the migration
\* succeeded; it exits with code 1 when the migration fails, when no
\* connection string is configured and when the operator declines.
C14_ExitCodes ==
    Migrated =>
        /\ last.result.exit_code = 0 => Succeeded
        /\ ~Configured => last.result.exit_code = 1
        /\ Declined => last.result.exit_code = 1
        /\ (last.result.schema # "untouched" /\ last.ending = "failed") =>
               last.result.exit_code = 1

\* a confirmed production migration that created the table and exited with 0
C14_Witness ==
    /\ Migrated
    /\ TypedYes
    /\ Succeeded
    /\ last.result.schema = "created"
    /\ last.result.exit_code = 0

\* C15 as stated: the schema of a database whose connection string does not
\* look like SQLite is neither inspected nor modified unless the operator
\* typed "yes"; a SQLite-looking connection string is migrated unasked.
C15_ConfirmedBeforeTouching ==
    Migrated =>
        /\ (last.result.schema # "untouched" /\ ~LooksLikeSqlite) => TypedYes
        /\ LooksLikeSqlite => ~last.result.prompted

\* a PostgreSQL connection string: the operator typed "yes" and the schema
\* was inspected
C15_Witness ==
    /\ Migrated
    /\ last.database_url = Some(<<"p","o","s","t","g","r","e","s","q","l",":","/","/","d","b","/","a","p","p">>)
    /\ last.answer = Some(Text_yes)
    /\ last.result.prompted
    /\ last.result.schema = "inspected"

(***************************************************************************)
(* The stdio transport (run_stdio_server, lib/mcp/server.py).              *)
(*                                                                         *)
(* A line of standard input is json.dumps of the JSON value it spells, or  *)
(* [text |-> line] for a line that is no JSON text.  The                   *)
(* loop's position, the lines it has read, the lines it has printed and    *)
(* not yet flushed, and the lines that have reached standard output are    *)
(* kept in the record last.                                                *)
(***************************************************************************)
ParseError == -32700

JsonLine(v) == json_dumps(v)
TextLine == [text |-> "not json"]
IsJson(line) == "json" \in DOMAIN line

\* the lines the loop body prints for one line of input (lines 317-356), as
\* it would be if a parse error were only logged
stdio_print_quiet(result) ==
    IF result.outcome = "returned" THEN <<json_dumps(result.response)>>
    ELSE IF result.error = "JSONDecodeError" THEN <<>>
    ELSE <<json_dumps(RpcError(JNull, InternalError,
                               <<"Internal error: ", result.message>>))>>

\* the lines the loop body prints for one line of input (lines 317-356):
\* result is what json.loads and handle_request returned or raised
stdio_print(result) ==
    IF result.outcome = "returned" THEN <<json_dumps(result.response)>>
    ELSE IF result.error = "JSONDecodeError"
    THEN <<json_dumps(RpcError(JNull, ParseError, <<"Parse error">>))>>
    ELSE <<json_dumps(RpcError(JNull, InternalError,
                               <<"Internal error: ", result.message>>))>>

MaxLines == 3

StdinLines ==
    { TextLine,
      JsonLine(JObj([method |-> Style("initialize"), id |-> JNum(1)])),
      JsonLine(JObj([method |-> Style("resources/list"), id |-> Style("abc")])),
      JsonLine(JObj([method |-> Style("tools/call"), id |-> JNum(5),
                     params |-> JList(<<>>)])),
      JsonLine(JObj([method |-> Style("tools/call"), id |-> JNum(7),
                     params |-> JObj([name |-> Style("generate_wisdom_quote"),
                                      arguments |->
                                          JObj([user_input |-> JStr(In_padded)])])])),
      JsonLine(JList(<<>>)),
      JsonLine(JNum(1)) }

StdioInit ==
    /\ DbIdle
    /\ last = [ op |-> "stdio", pc |-> "read", lines |-> <<>>, printed |-> <<>>,
                stdout |-> <<>> ]

\* for line in sys.stdin
ReadLine(line) ==
    /\ last.pc = "read"
    /\ Len(last.lines) < MaxLines
    /\ last' = [last EXCEPT !.pc = "handle", !.lines = Append(@, line)]
    /\ AllUnchanged

\* json.loads, handle_request and print, or the print of an except clause
HandleLine(outcome) ==
    /\ last.pc = "handle"
    /\ LET line == last.lines[Len(last.lines)]
       IN  \E r \in { IF IsJson(line)
                      THEN handle_request(json_loads(line), quote_cache, next_id, rl,
                                          outcome, TRUE, TRUE, FALSE, now)
                      ELSE [ cache |-> quote_cache, next_id |-> next_id,
                             rl |-> rl, called |-> 0,
                             result |-> Raised("JSONDecodeError",
                                               "Expecting value") ] } :
               /\ Bounded(llm_calls + r.called)
               /\ quote_cache' = r.cache
               /\ next_id' = r.next_id
               /\ rl' = r.rl
               /\ llm_calls' = llm_calls + r.called
               /\ last' = [last EXCEPT !.pc = "flush",
                                       !.printed = @ \o stdio_print(r.result)]
               /\ UNCHANGED <<now, share_stats, daily_stats>>

\* sys.stdout.flush()
Flush ==
    /\ last.pc = "flush"
    /\ last' = [last EXCEPT !.pc = "read", !.printed = <<>>,
                            !.stdout = @ \o last.printed]
    /\ AllUnchanged

StdioNext ==
    \/ \E line \in StdinLines : ReadLine(line)
    \/ \E o \in McpOutcomes : HandleLine(o)
    \/ Flush

SpecStdio == StdioInit /\ [][StdioNext]_vars

\* the line written answers the line read: a parse error for a line that is
\* no JSON, an internal error for a value handle_request raised on, and the
\* response carrying the request's own id for a request object
AnswersLine(line, written) ==
    /\ IsJson(written)
    /\ json_loads(written).jsonrpc = "2.0"
    /\ IF ~IsJson(line)
       THEN /\ "error" \in DOMAIN json_loads(written)
            /\ json_loads(written).error.code = -32700
       ELSE IF ~IsObject(json_loads(line))
       THEN /\ "error" \in DOMAIN json_loads(written)
            /\ json_loads(written).error.code = -32603
       ELSE json_loads(written).id = Field(json_loads(line), "id")

\* C22: every line read gets exactly one response line, written and flushed
\* before the next line is read, so the responses stand in the order of the
\* requests; a line that is no JSON gets a -32700 response and any other
\* exception a -32603 response, and the loop goes on to the next line
C22_OneResponsePerLine ==
    /\ last.pc \in {"read", "handle", "flush"}
    /\ last.pc = "read" =>
           /\ last.printed = <<>>
           /\ Len(last.stdout) = Len(last.lines)
    /\ last.pc = "handle" =>
           /\ last.printed = <<>>
           /\ Len(last.stdout) = Len(last.lines) - 1
    /\ last.pc = "flush" =>
           /\ Len(last.printed) = 1
           /\ Len(last.stdout) = Len(last.lines) - 1
    /\ \A i \in 1..Len(last.stdout) : AnswersLine(last.lines[i], last.stdout[i])

\* after a line that is no JSON and a value that is no request object, the
\* third line, a tools/call, was answered with its result
C22_Witness ==
    /\ last.pc = "read"
    /\ Len(last.stdout) = 3
    /\ last.lines[1] = TextLine
    /\ json_loads(last.stdout[1]).error.code = -32700
    /\ last.lines[2] = JsonLine(JList(<<>>))
    /\ json_loads(last.stdout[2]).error.code = -32603
    /\ json_loads(last.stdout[3]).id = JNum(7)
    /\ "result" \in DOMAIN json_loads(last.stdout[3])

(***************************************************************************)
(* The routes specification: GET /share/<quote_id>, /image/<quote_id> and  *)
(* /share_text/<quote_id> (routes.py) and get_cached_quote over a cache    *)
(* that POST /shift fills, with a client that follows each redirect.       *)
(***************************************************************************)
Redirect(to) == [kind |-> "redirect", to |-> to, quote |-> None]
Page(kind, quote) == [kind |-> kind, to |-> "", quote |-> quote]

\* the three routes parse the id and read the row with the same lines: no
\* underscore, a missing row and an index at or past the length flash and
\* return the home redirect; int() of the index part, a failing query and an
\* index below -length raise; any other index is handed to list indexing
route_quote(cache, quote_id, read_ok) ==
    IF ~HasUnderscore(quote_id) THEN [outcome |-> "home", quote |-> None]
    ELSE LET parts == SplitFirst(quote_id)
             quote_index == PyInt(parts[2])
         IN  IF ~quote_index.ok \/ ~read_ok THEN [outcome |-> "raised", quote |-> None]
             ELSE LET quote_cache_row == RowByKey(cache, parts[1], TRUE)
                  IN  IF quote_cache_row = None THEN [outcome |-> "home", quote |-> None]
                      ELSE LET quotes_data == json_loads(quote_cache_row[1].response_data)
                               quote_data == PyIndex(quotes_data, quote_index.value)
                           IN  IF quote_index.value >= Len(quotes_data)
                               THEN [outcome |-> "home", quote |-> None]
                               ELSE IF ~quote_data.ok
                               THEN [outcome |-> "raised", quote |-> None]
                               ELSE [outcome |-> "quote", quote |-> Some(quote_data.value)]

\* share_quote: every exception, the template's included, ends in the home
\* redirect
share_quote(cache, quote_id, read_ok, render) ==
    LET r == route_quote(cache, quote_id, read_ok)
    IN  IF r.outcome = "quote" /\ render = "ok" THEN Page("html", r.quote)
        ELSE Redirect("index")

\* quote_image as it would be with its handler sending the client back to
\* the image route
quote_image_retrying(cache, quote_id, read_ok, render) ==
    LET r == route_quote(cache, quote_id, read_ok)
    IN  IF r.outcome = "home" THEN Redirect("index")
        ELSE IF r.outcome = "raised" \/ render = "unavailable" THEN Redirect("image")
        ELSE IF render = "ok" THEN Page("png", r.quote)
        ELSE Page("png", None)

\* quote_image: the renderer answers its own failures with a fallback PNG;
\* an exception of the route itself, the import of the renderer at line 226
\* included, redirects to the text route
quote_image(cache, quote_id, read_ok, render) ==
    LET r == route_quote(cache, quote_id, read_ok)
    IN  IF r.outcome = "home" THEN Redirect("index")
        ELSE IF r.outcome = "raised" \/ render = "unavailable" THEN Redirect("share_text")
        ELSE IF render = "ok" THEN Page("png", r.quote)
        ELSE Page("png", None)

\* share_text: the quote as a text attachment, or the home redirect
share_text(cache, quote_id, read_ok) ==
    LET r == route_quote(cache, quote_id, read_ok)
    IN  IF r.outcome = "quote" THEN Page("text", r.quote)
        ELSE Redirect("index")

\* the home page: index() renders index.html, and so does the 500 handler
\* when the query of index() fails
index == Page("home", None)

Routes == {"share", "image", "share_text"}

\* the view a path is routed to
dispatch(route, cache, quote_id, read_ok, render) ==
    IF route = "share" THEN share_quote(cache, quote_id, read_ok, render)
    ELSE IF route = "image" THEN quote_image(cache, quote_id, read_ok, render)
    ELSE IF route = "share_text" THEN share_text(cache, quote_id, read_ok)
    ELSE index

\* the redirects a client follows before it gives up
MaxHops == 3

\* the ids asked for: the first row with indexes on both sides of zero, a
\* row that is not there, and texts that are no composite id
RouteRows == {1, 7}
RouteIds ==
    {CompositeId(1, i) : i \in (0 - MaxIndex)..MaxIndex}
        \cup {Id_7_0, <<"1">>, <<"1","_","a">>, <<"a","_","0">>}

\* how a request can go: the store answers or not; the page or the image is
\* rendered, its rendering raises, or the renderer cannot be imported
RouteModes ==
    {<<TRUE, "ok">>, <<FALSE, "ok">>, <<TRUE, "raises">>, <<TRUE, "unavailable">>}

RouteGet(route, quote_id, read_ok, render) ==
    /\ last' = [ op |-> "get", first |-> route, route |-> route,
                 quote_id |-> quote_id, hops |-> 0,
                 read_ok |-> read_ok, render |-> render,
                 response |-> dispatch(route, quote_cache, quote_id, read_ok,
                                       render) ]
    /\ AllUnchanged

\* the client requests the Location of the redirect it was answered with
FollowRedirect(read_ok, render) ==
    /\ last.op = "get"
    /\ last.response.kind = "redirect"
    /\ last.hops < MaxHops
    /\ last' = [ last EXCEPT !.route = last.response.to,
                             !.hops = @ + 1,
                             !.read_ok = read_ok, !.render = render,
                             !.response = dispatch(last.response.to, quote_cache,
                                                   last.quote_id, read_ok,
                                                   render) ]
    /\ AllUnchanged

RoutesNext ==
    \/ \E o \in StoreOutcomes : ShiftPerspective(In_abc, o, "none", FALSE)
    \/ \E route \in Routes, q \in RouteIds, m \in RouteModes :
          RouteGet(route, q, m[1], m[2])
    \/ \E m \in RouteModes : FollowRedirect(m[1], m[2])
    \/ \E q \in RouteIds : GetCachedQuote(q, TRUE)

SpecRoutes == StoreInit /\ [][RoutesNext]_vars

\* a retrieval answered by the first handler asked, with the store answering
\* and the page rendered
Direct(l) ==
    \/ l.op = "get_cached_quote" /\ l.read_ok
    \/ l.op = "get" /\ l.hops = 0 /\ l.read_ok /\ l.render = "ok"

ReturnsElement(l, e) ==
    IF l.op = "get_cached_quote"
    THEN l.result.found /\ SameTexts(l.result.quote, e)
    ELSE l.response.quote # None /\ SameTexts(l.response.quote[1], e)

ReturnsNothing(l) ==
    IF l.op = "get_cached_quote" THEN l.result = Absent
    ELSE l.response = Redirect("index")

\* C28: get_cached_quote and the routes /share, /image and /share_text return
\* a quote only when the index I of the composite id satisfies
\* 0 <= I < length of the stored array, and then the element at I; for every
\* other integer index, negative ones included, the facade returns absent and
\* the routes redirect home
C28_IndexBounds ==
    Direct(last) =>
        \A r \in RouteRows, i \in (0 - MaxIndex)..MaxIndex :
            last.quote_id = CompositeId(r, i) =>
                IF /\ r \in DOMAIN quote_cache
                   /\ 0 <= i
                   /\ i < Len(json_loads(quote_cache[r].response_data))
                THEN ReturnsElement(last, json_loads(quote_cache[r].response_data)[i + 1])
                ELSE ReturnsNothing(last)

\* /share/1_-1 rendered the share page of a quote
C28_Witness ==
    /\ last.op = "get"
    /\ last.route = "share"
    /\ last.hops = 0
    /\ last.quote_id = CompositeId(1, 0 - 1)
    /\ last.response.kind = "html"
    /\ last.response.quote # None


\* the routes in the order of their redirects: a redirect leads to a route
\* further down
Rank(route) ==
    IF route = "image" THEN 2
    ELSE IF route \in {"share_text", "share"} THEN 1
    ELSE 0

Descends(l) == l.response.kind = "redirect" => Rank(l.response.to) < Rank(l.route)

\* a request that began at /image/<quote_id>, redirects followed
FromImage(l) == l.op = "get" /\ l.first = "image"

\* C30 as stated: every GET /image/<quote_id>, for any id and any failure,
\* ends in a PNG response or in the home page after at most two redirects
\* (/image to /share_text to /), and no redirects among /image, /share_text,
\* /share and / form a cycle
C30_ImageEndsInPngOrHome ==
    /\ last.op = "get" => Descends(last)
    /\ FromImage(last) =>
           /\ last.hops <= 2
           /\ last.response.kind \in {"redirect", "png", "home"}

\* C30, amended: every GET /image/<quote_id> ends after at most two
\* redirects in a PNG response, in the text attachment of /share_text (when
\* the image route raised and the text route then found the quote) or in the
\* home page; a chain of two redirects ends in the home page, and every
\* redirect leads from /image to /share_text or /, or from /share_text or
\* /share to /, so that no redirects form a cycle
C30_ImageEndsInPngTextOrHome ==
    /\ last.op = "get" => Descends(last)
    /\ FromImage(last) =>
           /\ last.hops <= 2
           /\ last.response.kind \in {"redirect", "png", "text", "home"}
           /\ last.response.kind = "png" => last.hops = 0
           /\ last.response.kind = "text" => last.hops = 1 /\ last.route = "share_text"
           /\ last.hops = 2 => last.response.kind = "home"

\* /image/1_a went to /share_text/1_a and from there to the home page
C30_Witness ==
    /\ FromImage(last)
    /\ last.quote_id = <<"1","_","a">>
    /\ last.hops = 2
    /\ last.route = "index"
    /\ last.response = index

====
